---------------------------- MODULE Spec2Model ----------------------------
(***************************************************************************)
(* A model of the job workspaces of the VNTL Ren'Py web tool (src/app).    *)
(*                                                                         *)
(* Strings are sequences of one-character strings, so that the regular     *)
(* expression, strip(), startswith() and the splitting into path parts are *)
(* computed character by character as the code computes them.  A path      *)
(* (pathlib.Path) is the sequence of its components below "/".  The file   *)
(* system is a function from the absolute, normalised paths that exist to  *)
(* their nodes.  There are no symbolic links: no operation of the program  *)
(* creates one.                                                            *)
(***************************************************************************)
EXTENDS Integers, Sequences, FiniteSets, TLC

VARIABLES
    fs,      \* the file system: path -> [kind, data, mtime]
    now,     \* the wall clock, in ticks (TicksPerSec ticks a second)
    reqs,    \* the requests in flight: request id -> the handler's frame
    last,    \* what the last completed step was and what it answered
    nops,    \* the number of requests started so far
    probe    \* the argument and the result of the last pure-function call

vars == <<fs, now, reqs, last, nops, probe>>

---------------------------------------------------------------------------
(* Bounds of the model.                                                    *)

\* longest string handed to the pure path functions
MaxLen == 3
\* number of requests a behaviour starts
MaxOps == 3
\* last tick of the clock
MaxTime == 6
\* clock resolution: ticks in one second (st_mtime and time.time() are floats)
TicksPerSec == 2

---------------------------------------------------------------------------
(* Strings.                                                                *)

Letters == {"a", "b", "c", "d", "e", "f", "g", "h", "i", "j", "k", "l", "m",
            "n", "o", "p", "q", "r", "s", "t", "u", "v", "w", "x", "y", "z"}

UpperLetters == {"A", "B", "C", "D", "E", "F", "G", "H", "I", "J", "K", "L", "M",
                 "N", "O", "P", "Q", "R", "S", "T", "U", "V", "W", "X", "Y", "Z"}

Digits == {"0", "1", "2", "3", "4", "5", "6", "7", "8", "9"}

\* the characters str.strip() removes (the model's strings hold the blank only)
Whitespace == {" ", "\t", "\n", "\r"}

StartsWith(s, pre) == Len(pre) <= Len(s) /\ SubSeq(s, 1, Len(pre)) = pre

EndsWith(s, suf) == Len(suf) <= Len(s) /\ SubSeq(s, Len(s) - Len(suf) + 1, Len(s)) = suf

RECURSIVE LStrip(_, _)
LStrip(s, cs) == IF s # <<>> /\ Head(s) \in cs THEN LStrip(Tail(s), cs) ELSE s

RECURSIVE RStrip(_, _)
RStrip(s, cs) == IF s # <<>> /\ s[Len(s)] \in cs THEN RStrip(SubSeq(s, 1, Len(s) - 1), cs) ELSE s

Strip(s) == RStrip(LStrip(s, Whitespace), Whitespace)

Replace(s, from, to) == [i \in 1..Len(s) |-> IF s[i] = from THEN to ELSE s[i]]

RECURSIVE SplitAt(_, _, _)
SplitAt(s, sep, cur) ==
    IF s = <<>> THEN <<cur>>
    ELSE IF Head(s) = sep THEN <<cur>> \o SplitAt(Tail(s), sep, <<>>)
    ELSE SplitAt(Tail(s), sep, Append(cur, Head(s)))

Split(s, sep) == SplitAt(s, sep, <<>>)

Range(s) == {s[i] : i \in 1..Len(s)}

---------------------------------------------------------------------------
(* pathlib.                                                                *)

DOT == <<".">>

DOTDOT == <<".", ".">>

IsAbs(s) == s # <<>> /\ Head(s) = "/"

\* Path(s).parts below the anchor: empty and "." components are dropped,
\* ".." components are kept
PathParts(s) == SelectSeq(Split(s, "/"), LAMBDA c : c # <<>> /\ c # DOT)

\* base / s
Join(base, s) == IF IsAbs(s) THEN PathParts(s) ELSE base \o PathParts(s)

Parent(p) == IF p = <<>> THEN p ELSE SubSeq(p, 1, Len(p) - 1)

Name(p) == IF p = <<>> THEN <<>> ELSE p[Len(p)]

\* Path.resolve() without symbolic links: ".." removes the component before it
RECURSIVE ResolveFrom(_, _)
ResolveFrom(acc, rest) ==
    IF rest = <<>> THEN acc
    ELSE IF Head(rest) = DOTDOT THEN ResolveFrom(Parent(acc), Tail(rest))
    ELSE ResolveFrom(Append(acc, Head(rest)), Tail(rest))

Resolve(p) == ResolveFrom(<<>>, p)

\* str(path)
RECURSIVE StrFrom(_)
StrFrom(p) == IF p = <<>> THEN <<>> ELSE <<"/">> \o Head(p) \o StrFrom(Tail(p))

Str(p) == IF p = <<>> THEN <<"/">> ELSE StrFrom(p)

\* a is b or an ancestor of b, by components
IsUnder(b, a) == Len(a) <= Len(b) /\ SubSeq(b, 1, Len(a)) = a

\* Path.suffix: from the last dot of the name, unless the name starts with it
RECURSIVE LastDot(_, _)
LastDot(n, i) == IF i = 0 THEN 0 ELSE IF n[i] = "." THEN i ELSE LastDot(n, i - 1)

Suffix(p) ==
    LET n == Name(p)
        i == LastDot(n, Len(n))
    IN  IF i <= 1 \/ i = Len(n) THEN <<>> ELSE SubSeq(n, i, Len(n))

\* Path.stem
Stem(p) ==
    LET n == Name(p)
        i == LastDot(n, Len(n))
    IN  IF i <= 1 \/ i = Len(n) THEN n ELSE SubSeq(n, 1, i - 1)

LowerChar(c) ==
    CASE c = "A" -> "a" [] c = "B" -> "b" [] c = "C" -> "c" [] c = "D" -> "d"
      [] c = "E" -> "e" [] c = "F" -> "f" [] c = "G" -> "g" [] c = "H" -> "h"
      [] c = "I" -> "i" [] c = "J" -> "j" [] c = "K" -> "k" [] c = "L" -> "l"
      [] c = "M" -> "m" [] c = "N" -> "n" [] c = "O" -> "o" [] c = "P" -> "p"
      [] c = "Q" -> "q" [] c = "R" -> "r" [] c = "S" -> "s" [] c = "T" -> "t"
      [] c = "U" -> "u" [] c = "V" -> "v" [] c = "W" -> "w" [] c = "X" -> "x"
      [] c = "Y" -> "y" [] c = "Z" -> "z" [] OTHER -> c

Lower(s) == [i \in 1..Len(s) |-> LowerChar(s[i])]

---------------------------------------------------------------------------
(* src/app/utils.py: path validation.                                      *)

\* the character class of SAFE_PATH_RE
SafeChars == Letters \cup UpperLetters \cup Digits \cup {"_", "-", ".", "/"}

\* SAFE_PATH_RE.match(p): ^[a-zA-Z0-9_\-./]*$ ("$" also matches before one
\* trailing newline)
SAFE_PATH_RE(p) ==
    LET q == IF p # <<>> /\ p[Len(p)] = "\n" THEN SubSeq(p, 1, Len(p) - 1) ELSE p
    IN  Range(q) \subseteq SafeChars

HasDotDot(p) == \E i \in 1..Len(PathParts(p)) : PathParts(p)[i] = DOTDOT

\* the result of a function that returns a string or raises
Raised == [ok |-> FALSE, val |-> <<>>]

Returned(v) == [ok |-> TRUE, val |-> v]

ensure_safe_relpath(p0) ==
    LET p == Strip(p0)
    IN  IF p = <<>> THEN Raised
        ELSE IF ~SAFE_PATH_RE(p) \/ StartsWith(p, <<"/">>) \/ HasDotDot(p) THEN Raised
        ELSE Returned(p)

ensure_safe_relpath_allow_empty(p) ==
    IF p = <<>> THEN Returned(<<>>) ELSE ensure_safe_relpath(p)

---------------------------------------------------------------------------
(* The file system and the calls of os, pathlib and shutil the code makes. *)
(* A call returns [ok, fs]: ok is FALSE when the call raises, and fs is    *)
(* the file system it leaves.                                              *)

\* content of a file: a token for its bytes, its size in upload chunks, and
\* the members it holds when it is a zip archive
Data(id, size, entries) == [id |-> id, size |-> size, entries |-> entries]

NoData == Data("", 0, <<>>)

DirNode(t) == [kind |-> "dir", data |-> NoData, mtime |-> t]

FileNode(d, t) == [kind |-> "file", data |-> d, mtime |-> t]

Ok(f) == [ok |-> TRUE, fs |-> f]

Err(f) == [ok |-> FALSE, fs |-> f]

\* r, and then F on the file system r left unless r raised
Then(r, F(_)) == IF r.ok THEN F(r.fs) ELSE r

\* K on the value v: a local name for a value used more than once
Bind(v, K(_)) == K(v)

Exists(f, p) == p \in DOMAIN f

IsDir(f, p) == p \in DOMAIN f /\ f[p].kind = "dir"

IsFile(f, p) == p \in DOMAIN f /\ f[p].kind = "file"

Prefixes(p) == {SubSeq(p, 1, k) : k \in 0..Len(p)}

Subtree(f, p) == {q \in DOMAIN f : IsUnder(q, p)}

Children(f, p) == {q \in DOMAIN f : Len(q) = Len(p) + 1 /\ IsUnder(q, p)}

\* the files below directory p (rglob("*") without the directories)
FilesUnder(f, p) == {q \in Subtree(f, p) : f[q].kind = "file"}

\* a change of a directory's entries sets the directory's st_mtime
Bump(f, p, t) == [q \in DOMAIN f |-> IF q = p THEN [f[q] EXCEPT !.mtime = t] ELSE f[q]]

\* Path.mkdir(parents=True, exist_ok=True)
MkdirP(f, p, t) ==
    IF \E q \in Prefixes(p) : IsFile(f, q) THEN Err(f)
    ELSE LET new == Prefixes(p) \ DOMAIN f
             touched == {Parent(q) : q \in new}
         IN  Ok([q \in DOMAIN f \cup new |->
                    IF q \in new THEN DirNode(t)
                    ELSE IF q \in touched THEN [f[q] EXCEPT !.mtime = t]
                    ELSE f[q]])

\* shutil.rmtree(p, ignore_errors=True)
RmTree(f, p, t) ==
    IF ~IsDir(f, p) \/ p = <<>> THEN f
    ELSE Bump([q \in DOMAIN f \ Subtree(f, p) |-> f[q]], Parent(p), t)

\* Path.unlink(missing_ok=True)
Unlink(f, p, t) ==
    IF ~Exists(f, p) THEN Ok(f)
    ELSE IF IsDir(f, p) THEN Err(f)
    ELSE Ok(Bump([q \in DOMAIN f \ {p} |-> f[q]], Parent(p), t))

\* open(p, "wb") and the writes that follow, write_bytes, write_text
WriteFile(f, p, d, t) ==
    IF ~IsDir(f, Parent(p)) \/ IsDir(f, p) \/ p = <<>> THEN Err(f)
    ELSE LET g == [q \in DOMAIN f \cup {p} |-> IF q = p THEN FileNode(d, t) ELSE f[q]]
         IN  Ok(IF Exists(f, p) THEN g ELSE Bump(g, Parent(p), t))

\* os.rename(src, dst)
Rename(f, src, dst, t) ==
    IF \/ ~Exists(f, src) \/ ~IsDir(f, Parent(dst)) \/ src = <<>> \/ dst = <<>>
       \/ (IsDir(f, src) /\ IsUnder(dst, src))
       \/ (Exists(f, dst) /\ (IsDir(f, src) # IsDir(f, dst)))
       \/ (IsDir(f, dst) /\ Children(f, dst) # {})
    THEN Err(f)
    ELSE IF src = dst THEN Ok(f)
    ELSE LET moved == Subtree(f, src)
             keep == (DOMAIN f \ moved) \ Subtree(f, dst)
             to(q) == dst \o SubSeq(q, Len(src) + 1, Len(q))
             g == [q \in keep \cup {to(m) : m \in moved} |->
                      IF q \in keep THEN f[q]
                      ELSE f[CHOOSE m \in moved : to(m) = q]]
         IN  Ok(Bump(Bump(g, Parent(src), t), Parent(dst), t))

\* shutil.move(src, dst): into dst when dst is a directory
ShutilMove(f, src, dst, t) ==
    LET real == IF IsDir(f, dst) /\ src # dst THEN Append(dst, Name(src)) ELSE dst
    IN  IF IsDir(f, dst) /\ src # dst /\ Exists(f, real) THEN Err(f)
        ELSE Rename(f, src, real, t)

\* the path the kernel reaches for a path that still holds ".." components
\* (Path objects joined with "/" are not normalised): every component passed
\* through must be an existing directory
RECURSIVE OsWalk(_, _, _)
OsWalk(f, cur, rest) ==
    IF rest = <<>> THEN [ok |-> TRUE, path |-> cur]
    ELSE IF ~IsDir(f, cur) THEN [ok |-> FALSE, path |-> cur]
    ELSE IF Head(rest) = DOTDOT THEN OsWalk(f, Parent(cur), Tail(rest))
    ELSE OsWalk(f, Append(cur, Head(rest)), Tail(rest))

---------------------------------------------------------------------------
(* src/app/jobs.py.                                                        *)

S_tmp == <<"t", "m", "p">>

S_jobs == <<"j", "o", "b", "s">>

S_input == <<"i", "n", "p", "u", "t">>

S_output == <<"o", "u", "t", "p", "u", "t">>

S_meta == <<"m", "e", "t", "a", ".", "j", "s", "o", "n">>

\* JOB_ROOT (the JOB_ROOT of the environment, resolved): /tmp/jobs here
JOB_ROOT == <<S_tmp, S_jobs>>

\* int(time.time()), int(st_mtime)
now_s(t) == t \div TicksPerSec

job_paths(job_id) ==
    LET root == Resolve(Join(JOB_ROOT, job_id))
    IN  [root |-> root,
         inp |-> Append(root, S_input),
         out |-> Append(root, S_output),
         meta |-> Append(root, S_meta)]

MetaData == Data("{}", 0, <<>>)

touch_meta(f, job_id, t) ==
    LET jp == job_paths(job_id)
    IN  IF Exists(f, jp.meta) THEN Ok(Bump(f, jp.meta, t))
        ELSE WriteFile(f, jp.meta, MetaData, t)

\* new_job with the identifier uuid4 drew
new_job(f, job_id, t) ==
    LET jp == job_paths(job_id)
    IN  Then(Then(MkdirP(f, jp.inp, t),
                  LAMBDA g : MkdirP(g, jp.out, t)),
             LAMBDA g : touch_meta(g, job_id, t))

\* the entries of JOB_ROOT a sweep looks at
JobDirs(f) == Children(f, JOB_ROOT)

\* the time a sweep reads for an entry of JOB_ROOT
SweepTs(f, job_dir) ==
    LET meta == Append(job_dir, S_meta)
    IN  IF Exists(f, meta) THEN now_s(f[meta].mtime) ELSE now_s(f[job_dir].mtime)

\* the comparison with the cutoff taken as "not after" instead of "before"
ExpiredAtCutoff(f, job_dir, ttl_seconds, t) == SweepTs(f, job_dir) <= now_s(t) - ttl_seconds

\* ts < cutoff
Expired(f, job_dir, ttl_seconds, t) == SweepTs(f, job_dir) < now_s(t) - ttl_seconds

RECURSIVE RmTrees(_, _, _)
RmTrees(f, ds, t) ==
    IF ds = {} THEN f
    ELSE LET d == CHOOSE x \in ds : TRUE
         IN  RmTrees(RmTree(f, d, t), ds \ {d}, t)

\* cleanup_jobs: [ok, fs, removed]; it raises when JOB_ROOT cannot be listed
cleanup_jobs(f, ttl_seconds, t) ==
    IF ~IsDir(f, JOB_ROOT) THEN [ok |-> FALSE, fs |-> f, removed |-> 0]
    ELSE LET gone == {d \in JobDirs(f) : Expired(f, d, ttl_seconds, t)}
         IN  [ok |-> TRUE, fs |-> RmTrees(f, gone, t), removed |-> Cardinality(gone)]

---------------------------------------------------------------------------
(* src/app/utils.py: zip ingestion.                                        *)

S_dotzip == <<".", "z", "i", "p">>

is_zip_path(p) == Lower(Suffix(p)) = S_dotzip

\* str(a).startswith(str(b)): the containment test of the handlers
StrStartsWith(a, b) == StartsWith(Str(a), Str(b))

\* ZipFile._extract_member's target: empty, "." and ".." components of the
\* member's name are dropped before it is joined to the directory
MemberTarget(out_dir, filename) ==
    out_dir \o SelectSeq(Split(filename, "/"), LAMBDA c : c # <<>> /\ c # DOT /\ c # DOTDOT)

\* ZipFile._extract_member: the member e written at target
ExtractMember(f, e, target, t) ==
    Then(IF Exists(f, Parent(target)) THEN Ok(f) ELSE MkdirP(f, Parent(target), t),
         LAMBDA g : IF EndsWith(e.filename, <<"/">>)
                    THEN (IF IsDir(g, target) THEN Ok(g)
                          ELSE IF Exists(g, target) THEN Err(g)
                          ELSE MkdirP(g, target, t))
                    ELSE WriteFile(g, target, e.data, t))

\* ZipFile.extractall(out_dir), member by member
RECURSIVE ExtractAll(_, _, _, _)
ExtractAll(f, entries, out_dir, t) ==
    IF entries = <<>> THEN Ok(f)
    ELSE Then(ExtractMember(f, Head(entries), MemberTarget(out_dir, Head(entries).filename), t),
              LAMBDA g : ExtractAll(g, Tail(entries), out_dir, t))

\* the test extract_zip makes on the name of one member
UnsafeEntry(out_dir, filename) ==
    ~StrStartsWith(Resolve(Join(out_dir, filename)), Resolve(out_dir))

\* extract_zip: ok is FALSE when it raises (not a zip file, "Unsafe ZIP entry
\* detected", or an error of the extraction)
extract_zip(f, zip_path, out_dir, t) ==
    IF ~IsFile(f, zip_path) \/ f[zip_path].data.id # "zip" THEN Err(f)
    ELSE IF \E i \in 1..Len(f[zip_path].data.entries) :
                UnsafeEntry(out_dir, f[zip_path].data.entries[i].filename)
    THEN Err(f)
    ELSE ExtractAll(f, f[zip_path].data.entries, out_dir, t)

---------------------------------------------------------------------------
(* src/app/main.py: the handlers that run in one piece.  A handler returns *)
(* [fs, status, err, ninv]: the file system it leaves, the HTTP status of  *)
(* the response (500 for an exception that is no HTTPException), the kind  *)
(* of the failure, and the number of processor invocations it made.        *)

\* MAX_UPLOAD_MB, in upload chunks of 1 MiB
MAX_UPLOAD_MB == 2

\* the size limit of save_file, in MiB
SAVE_LIMIT_MB == 2

\* JOB_TTL_SECONDS
JOB_TTL_SECONDS == 1

Resp(f, status, err) == [fs |-> f, status |-> status, err |-> err, ninv |-> 0]

S_upload_bin == <<"u", "p", "l", "o", "a", "d", ".", "b", "i", "n">>

\* what the file holds after k chunks of d were written
Written(d, k) == IF k = d.size THEN d ELSE Data("part", k, <<>>)

\* the chunk loop of create_job on one file: [fs, total, ok]
RECURSIVE WriteChunks(_, _, _, _, _, _)
WriteChunks(f, dest, d, k, total, t) ==
    IF k = d.size THEN [fs |-> f, total |-> total, ok |-> TRUE]
    ELSE IF total + 1 > MAX_UPLOAD_MB THEN [fs |-> f, total |-> total + 1, ok |-> FALSE]
    ELSE WriteChunks(WriteFile(f, dest, Written(d, k + 1), t).fs, dest, d, k + 1, total + 1, t)

\* the handlers' touch_meta(job_id) and the response that follows it
Touched(f, job_id, t) ==
    Bind(touch_meta(f, job_id, t),
         LAMBDA r : IF r.ok THEN Resp(r.fs, 200, "") ELSE Resp(r.fs, 500, "OSError"))

\* safe_name of create_job
SafeName(filename) ==
    LStrip(Replace(IF filename = <<>> THEN S_upload_bin ELSE filename, "\\", "/"), {"/"})

\* the body of create_job's loop after the check of the name: the file with
\* content d is written at dest, and unpacked when it is a zip:
\* [fs, status, err, total]
UploadOne(f, inp, d, dest, total, t) ==
    Bind(Then(MkdirP(f, Parent(dest), t), LAMBDA g : WriteFile(g, dest, Written(d, 0), t)),
         LAMBDA opened :
            IF ~opened.ok THEN [fs |-> opened.fs, status |-> 500, err |-> "OSError", total |-> total]
            ELSE Bind(WriteChunks(opened.fs, dest, d, 0, total, t), LAMBDA w :
                IF ~w.ok THEN [fs |-> w.fs, status |-> 413, err |-> "PayloadTooLarge", total |-> w.total]
                ELSE IF ~is_zip_path(dest) THEN [fs |-> w.fs, status |-> 200, err |-> "", total |-> w.total]
                ELSE Bind(Then(extract_zip(w.fs, dest, inp, t), LAMBDA g : Unlink(g, dest, t)), LAMBDA z :
                    [fs |-> z.fs, status |-> IF z.ok THEN 200 ELSE 500,
                     err |-> IF z.ok THEN "" ELSE "UnsafeArchiveEntry", total |-> w.total])))

\* the loop of create_job over the files of the request
RECURSIVE UploadFiles(_, _, _, _, _)
UploadFiles(f, job_id, files, total, t) ==
    IF files = <<>> THEN Touched(f, job_id, t)
    ELSE IF HasDotDot(SafeName(Head(files).filename)) THEN Resp(f, 400, "InvalidPath")
    ELSE Bind(UploadOne(f, job_paths(job_id).inp, Head(files).data,
                        Join(job_paths(job_id).inp, SafeName(Head(files).filename)), total, t),
              LAMBDA u : IF u.status # 200 THEN Resp(u.fs, u.status, u.err)
                         ELSE UploadFiles(u.fs, job_id, Tail(files), u.total, t))

\* create_job, with the identifier new_job draws
create_job(f, job_id, files, t) ==
    IF files = <<>> THEN Resp(f, 400, "NoFiles")
    ELSE Bind(new_job(f, job_id, t),
              LAMBDA r : IF ~r.ok THEN Resp(r.fs, 500, "OSError")
                         ELSE UploadFiles(r.fs, job_id, files, 0, t))

SideRoot(job_id, where) == IF where = "output" THEN job_paths(job_id).out ELSE job_paths(job_id).inp

job_tree(f, job_id, where, t) ==
    IF ~Exists(f, SideRoot(job_id, where)) THEN Resp(f, 404, "JobNotFound")
    ELSE Touched(f, job_id, t)

\* get_file once the path is resolved to full
GetResolved(f, job_id, root, full, t) ==
    IF ~StrStartsWith(full, Resolve(root)) \/ ~IsFile(f, full) THEN Resp(f, 404, "FileNotFound")
    ELSE IF f[full].data.size > SAVE_LIMIT_MB THEN Resp(Touched(f, job_id, t).fs, 413, "PayloadTooLarge")
    ELSE Touched(f, job_id, t)

get_file(f, job_id, path, where, t) ==
    IF ~Exists(f, SideRoot(job_id, where)) THEN Resp(f, 404, "JobNotFound")
    ELSE Bind(ensure_safe_relpath(path), LAMBDA rel :
            IF ~rel.ok THEN Resp(f, 500, "InvalidPath")
            ELSE GetResolved(f, job_id, SideRoot(job_id, where),
                             Resolve(Join(SideRoot(job_id, where), rel.val)), t))

\* save_file once the path is resolved to full
SaveResolved(f, job_id, root, full, content, t) ==
    IF ~StrStartsWith(full, Resolve(root)) \/ ~IsFile(f, full) THEN Resp(f, 404, "FileNotFound")
    ELSE IF content.size > SAVE_LIMIT_MB THEN Resp(f, 413, "PayloadTooLarge")
    ELSE Bind(WriteFile(f, full, content, t),
              LAMBDA w : IF ~w.ok THEN Resp(w.fs, 500, "OSError") ELSE Touched(w.fs, job_id, t))

save_file(f, job_id, content, path, where, t) ==
    Bind(ensure_safe_relpath(path), LAMBDA rel :
        IF ~rel.ok THEN Resp(f, 500, "InvalidPath")
        ELSE SaveResolved(f, job_id, SideRoot(job_id, where),
                          Resolve(Join(SideRoot(job_id, where), rel.val)), content, t))

\* fs_move's removal of an existing destination
ClearDst(f, dst, t) ==
    IF ~Exists(f, dst) THEN Ok(f)
    ELSE IF IsDir(f, dst) THEN Ok(RmTree(f, dst, t))
    ELSE Unlink(f, dst, t)

\* fs_move once both paths are resolved
MoveResolved(f, job_id, root, src, dst, overwrite, t) ==
    IF ~StrStartsWith(src, Resolve(root)) \/ ~Exists(f, src) THEN Resp(f, 404, "NotFound")
    ELSE IF ~StrStartsWith(dst, Resolve(root)) THEN Resp(f, 400, "PathEscape")
    ELSE IF IsDir(f, src) /\ StrStartsWith(dst, src) THEN Resp(f, 400, "InvalidMove")
    ELSE Bind(MkdirP(f, Parent(dst), t), LAMBDA made :
            IF ~made.ok THEN Resp(made.fs, 500, "OSError")
            ELSE IF Exists(made.fs, dst) /\ ~overwrite THEN Resp(made.fs, 409, "Conflict")
            ELSE Bind(Then(ClearDst(made.fs, dst, t), LAMBDA g : ShutilMove(g, src, dst, t)),
                      LAMBDA moved : IF ~moved.ok THEN Resp(moved.fs, 500, "OSError")
                                     ELSE Touched(moved.fs, job_id, t)))

fs_move(f, job_id, where, src_s, dst_s, overwrite, t) ==
    IF ~Exists(f, SideRoot(job_id, where)) THEN Resp(f, 404, "JobNotFound")
    ELSE Bind(ensure_safe_relpath(src_s), LAMBDA src_rel :
         Bind(ensure_safe_relpath(dst_s), LAMBDA dst_rel :
            IF ~src_rel.ok \/ ~dst_rel.ok THEN Resp(f, 500, "InvalidPath")
            ELSE MoveResolved(f, job_id, SideRoot(job_id, where),
                              Resolve(Join(SideRoot(job_id, where), src_rel.val)),
                              Resolve(Join(SideRoot(job_id, where), dst_rel.val)), overwrite, t)))

\* fs_mkdir once the path is resolved to d
MkdirResolved(f, job_id, root, d, t) ==
    IF ~StrStartsWith(d, Resolve(root)) THEN Resp(f, 400, "PathEscape")
    ELSE Bind(MkdirP(f, d, t),
              LAMBDA made : IF ~made.ok THEN Resp(made.fs, 500, "OSError")
                            ELSE Touched(made.fs, job_id, t))

fs_mkdir(f, job_id, where, path, t) ==
    IF ~Exists(f, SideRoot(job_id, where)) THEN Resp(f, 404, "JobNotFound")
    ELSE Bind(ensure_safe_relpath(path), LAMBDA rel :
            IF ~rel.ok THEN Resp(f, 500, "InvalidPath")
            ELSE MkdirResolved(f, job_id, SideRoot(job_id, where),
                               Resolve(Join(SideRoot(job_id, where), rel.val)), t))

\* fs_delete once the path is resolved to full
DeleteResolved(f, job_id, root, full, t) ==
    IF ~StrStartsWith(full, Resolve(root)) \/ ~Exists(f, full) THEN Resp(f, 404, "NotFound")
    ELSE Bind(IF IsDir(f, full) THEN Ok(RmTree(f, full, t)) ELSE Unlink(f, full, t),
              LAMBDA gone : IF ~gone.ok THEN Resp(gone.fs, 500, "OSError")
                            ELSE Touched(gone.fs, job_id, t))

fs_delete(f, job_id, where, path, t) ==
    IF ~Exists(f, SideRoot(job_id, where)) THEN Resp(f, 404, "JobNotFound")
    ELSE Bind(ensure_safe_relpath(path), LAMBDA rel :
            IF ~rel.ok THEN Resp(f, 500, "InvalidPath")
            ELSE DeleteResolved(f, job_id, SideRoot(job_id, where),
                                Resolve(Join(SideRoot(job_id, where), rel.val)), t))

RECURSIVE SetToSeq(_)
SetToSeq(S) == IF S = {} THEN <<>> ELSE LET x == CHOOSE y \in S : TRUE IN <<x>> \o SetToSeq(S \ {x})

\* str(q.relative_to(root)).replace(os.sep, "/")
RECURSIVE RelStr(_)
RelStr(comps) ==
    IF comps = <<>> THEN <<>>
    ELSE IF Len(comps) = 1 THEN Head(comps)
    ELSE Head(comps) \o <<"/">> \o RelStr(Tail(comps))

RelPath(q, root) == RelStr(SubSeq(q, Len(root) + 1, Len(q)))

\* the members of the bundle download() builds of one side
BundleOf(f, root, members) ==
    Data("zip", 1, [i \in 1..Len(members) |->
        [filename |-> RelPath(members[i], root), data |-> f[members[i]].data]])

Bundle(f, root) == BundleOf(f, root, SetToSeq(FilesUnder(f, root)))

\* download of one file, once the path is resolved to full
DownloadOne(f, root, full) ==
    IF ~StrStartsWith(full, Resolve(root)) \/ ~IsFile(f, full) THEN Resp(f, 404, "FileNotFound")
    ELSE Resp(f, 200, "")

\* download of a whole side as the bundle zip_path
DownloadAll(f, root, zip_path, t) ==
    Bind(Then(Unlink(f, zip_path, t), LAMBDA g : WriteFile(g, zip_path, Bundle(g, root), t)),
         LAMBDA written : IF ~written.ok THEN Resp(written.fs, 500, "OSError")
                          ELSE Resp(written.fs, 200, ""))

download(f, job_id, where, zip_all, path, t) ==
    IF ~Exists(f, SideRoot(job_id, where)) THEN Resp(f, 404, "JobNotFound")
    ELSE Bind(touch_meta(f, job_id, t), LAMBDA tm :
        IF ~tm.ok THEN Resp(tm.fs, 500, "OSError")
        ELSE IF path # <<>> THEN
            Bind(ensure_safe_relpath(path), LAMBDA rel :
                IF ~rel.ok THEN Resp(tm.fs, 500, "InvalidPath")
                ELSE DownloadOne(tm.fs, SideRoot(job_id, where),
                                 Resolve(Join(SideRoot(job_id, where), rel.val))))
        ELSE IF ~zip_all THEN Resp(tm.fs, 400, "NoSelection")
        ELSE DownloadAll(tm.fs, SideRoot(job_id, where),
                         Append(job_paths(job_id).root,
                                (IF where = "output" THEN S_output ELSE S_input) \o S_dotzip), t))

---------------------------------------------------------------------------
(* src/app/main.py and src/app/processors: process_job and repack_job.     *)
(* They run in the thread pool, so they are modelled statement by          *)
(* statement: a frame holds the handler's arguments, its locals and its    *)
(* position pc, and Step runs the statement at pc.                         *)

\* nesting at which a path of staged copies gets longer than the system allows
NestDepth == 2

S_decompiled == <<"d", "e", "c", "o", "m", "p", "i", "l", "e", "d">>

S_rpa_extract == <<"r", "p", "a", "_", "e", "x", "t", "r", "a", "c", "t">>

S_rpi_extract == <<"r", "p", "i", "_", "e", "x", "t", "r", "a", "c", "t">>

S_packroot == <<"_", "p", "a", "c", "k", "r", "o", "o", "t">>

S_dotrpyc == <<".", "r", "p", "y", "c">>

S_dotrpy == <<".", "r", "p", "y">>

S_dotrpa == <<".", "r", "p", "a">>

S_dotrpi == <<".", "r", "p", "i">>

\* a file an extractor leaves in its target directory
S_member == <<"m">>

HexDigits == Digits \cup {"a", "b", "c", "d", "e", "f", "A", "B", "C", "D", "E", "F"}

\* the digits of a literal int(s, 16) reads: groups of digits between single "_"
HexGroups(s) == \A i \in 1..Len(Split(s, "_")) :
    Split(s, "_")[i] # <<>> /\ Range(Split(s, "_")[i]) \subseteq HexDigits

\* the literal after its sign
HexUnsigned(s) ==
    IF Len(s) >= 2 /\ s[1] = "0" /\ s[2] \in {"x", "X"}
    THEN HexGroups(IF Len(s) >= 3 /\ s[3] = "_" THEN SubSeq(s, 4, Len(s)) ELSE SubSeq(s, 3, Len(s)))
    ELSE HexGroups(s)

\* the literal after strip()
HexSigned(s) == HexUnsigned(IF s # <<>> /\ Head(s) \in {"+", "-"} THEN Tail(s) ELSE s)

\* whether int(str(key_hex), 16) returns
IsHexInt(key_hex) == HexSigned(Strip(key_hex))

\* the frame of a process_job or repack_job call; tools are the outcomes of
\* the processor invocations the call is going to make, in order
\* and walked_first the names of the directories that the listings of the
\* staging loop yield before the staging directory
Frame(op, job_id, mode, pack_where, pack_path, pack_name, key_hex, tools) ==
    [op |-> op, job_id |-> job_id, mode |-> mode,
     pack_where |-> pack_where, pack_path |-> pack_path, pack_name |-> pack_name,
     key_hex |-> key_hex, tools |-> tools,
     pc |-> "start", status |-> 0, err |-> "", logs |-> <<>>,
     rpyc_files |-> <<>>, rpa_files |-> <<>>, rpi_files |-> <<>>, i |-> 1,
     source_dir |-> <<>>, walked_first |-> {}, ninv |-> 0, nmut |-> 0]

Goto(fr, pc) == [fr EXCEPT !.pc = pc]

\* the handler ends with an error response
Fail(fr, status, err) == [fr EXCEPT !.pc = "done", !.status = status, !.err = err]

Log(fr, line) == [fr EXCEPT !.logs = Append(@, line)]

\* the outcome of the next processor invocation
Outcome(fr) == IF fr.tools = <<>> THEN "ok" ELSE Head(fr.tools)

\* one processor invocation made
Invoked(fr) == [fr EXCEPT !.tools = IF @ = <<>> THEN @ ELSE Tail(@), !.ninv = @ + 1]

St(f, fr) == [fs |-> f, fr |-> fr]

\* r.fs and the frame at pc when r.ok, the handler ended by OSError otherwise
OrOSError(r, fr, pc) == IF r.ok THEN St(r.fs, Goto(fr, pc)) ELSE St(r.fs, Fail(fr, 500, "OSError"))

\* the loop over files goes on with the next file, or the code after it runs
NextFile(fr, files, after) == IF fr.i >= Len(files) THEN Goto(fr, after) ELSE [fr EXCEPT !.i = @ + 1]

\* rglob("*" + ext) below the input directory
Glob(f, inp, ext) == SetToSeq({q \in Subtree(f, inp) \ {inp} : EndsWith(Name(q), ext)})

\* process_job to the scan of the input
StepStart(f, fr, t, jp) ==
    IF ~Exists(f, jp.root) THEN St(f, Fail(fr, 404, "JobNotFound"))
    ELSE St(f, Goto(fr, IF fr.op = "process" THEN "rm" ELSE "mk"))

\* StepRm were the old output left in place
StepRmKeeping(f, fr, t, jp) == St(f, Goto(fr, "mk"))

StepRm(f, fr, t, jp) == St(IF Exists(f, jp.out) THEN RmTree(f, jp.out, t) ELSE f, Goto(fr, "mk"))

StepMk(f, fr, t, jp) == OrOSError(MkdirP(f, jp.out, t), fr, "touch")

StepTouch(f, fr, t, jp) ==
    OrOSError(touch_meta(f, fr.job_id, t), fr, IF fr.op = "process" THEN "scan" ELSE "pack")

StepScan(f, fr, t, jp) ==
    St(f, [fr EXCEPT !.pc = "decompile",
                     !.rpyc_files = Glob(f, jp.inp, S_dotrpyc),
                     !.rpa_files = Glob(f, jp.inp, S_dotrpa),
                     !.rpi_files = Glob(f, jp.inp, S_dotrpi)])

\* decompile_rpyc_files
StepDecompile(f, fr, t, jp) ==
    IF fr.mode \notin {"auto", "decompile"} THEN St(f, Goto(fr, "rpa"))
    ELSE IF fr.rpyc_files = <<>> THEN St(f, Goto(Log(fr, "[decompile] No .rpyc files found."), "rpa"))
    ELSE OrOSError(MkdirP(f, Append(jp.out, S_decompiled), t), [fr EXCEPT !.i = 1], "dec_file")

\* the decompiler run on dst_rpyc
Decompiled(f, fr, dst_rpyc, t) ==
    IF Outcome(fr) = "ok"
    THEN St(WriteFile(f, Append(Parent(dst_rpyc), Stem(dst_rpyc) \o S_dotrpy), Data("rpy", 1, <<>>), t).fs,
            NextFile(Log(Invoked(fr), "[unrpyc] decompiled"), fr.rpyc_files, "rpa"))
    ELSE St(f, NextFile(Log(Invoked(fr), "[unrpyc] error on"), fr.rpyc_files, "rpa"))

\* the body of the loop of decompile_rpyc_files on src
DecompileOne(f, fr, src, dst_rpyc, t) ==
    IF ~IsFile(f, src) THEN St(f, Fail(fr, 500, "OSError"))
    ELSE Bind(WriteFile(f, dst_rpyc, f[src].data, t),
              LAMBDA w : IF ~w.ok THEN St(w.fs, Fail(fr, 500, "OSError"))
                         ELSE Decompiled(w.fs, fr, dst_rpyc, t))

StepDecFile(f, fr, t, jp) ==
    DecompileOne(f, fr, fr.rpyc_files[fr.i], jp.out \o <<S_decompiled, Name(fr.rpyc_files[fr.i])>>, t)

\* extract_rpa_with_unrpa
StepRpa(f, fr, t, jp) ==
    IF fr.mode \notin {"auto", "extract_rpa"} THEN St(f, Goto(fr, "rpi"))
    ELSE IF fr.rpa_files = <<>> THEN St(f, Goto(Log(fr, "[extract_rpa] No .rpa files found."), "rpi"))
    ELSE St(f, [fr EXCEPT !.pc = "rpa_file", !.i = 1])

\* what an extractor that ran on an archive leaves in target
Extracted(f, target, t) == WriteFile(f, Append(target, S_member), Data("member", 1, <<>>), t).fs

\* UnrpaRun were a non-zero exit to end the request
UnrpaRunAborting(f, fr, arc, target, t) ==
    IF Outcome(fr) = "timeout" THEN St(f, Fail(Invoked(fr), 500, "Timeout"))
    ELSE IF Outcome(fr) = "ok" /\ IsFile(f, arc)
    THEN St(Extracted(f, target, t), NextFile(Log(Invoked(fr), "$ unrpa"), fr.rpa_files, "rpi"))
    ELSE St(f, Fail(Log(Log(Invoked(fr), "$ unrpa"), "[unrpa] failed"), 500, "ProcessorFailed"))

\* run_cmd of unrpa on arc, the target directory made
UnrpaRun(f, fr, arc, target, t) ==
    IF Outcome(fr) = "timeout" THEN St(f, Fail(Invoked(fr), 500, "Timeout"))
    ELSE IF Outcome(fr) = "ok" /\ IsFile(f, arc)
    THEN St(Extracted(f, target, t), NextFile(Log(Invoked(fr), "$ unrpa"), fr.rpa_files, "rpi"))
    ELSE St(f, NextFile(Log(Log(Invoked(fr), "$ unrpa"), "[unrpa] failed"), fr.rpa_files, "rpi"))

\* the body of the loop of extract_rpa_with_unrpa on arc
UnrpaOne(f, fr, arc, target, t) ==
    Bind(MkdirP(f, target, t),
         LAMBDA r : IF ~r.ok THEN St(r.fs, Fail(fr, 500, "OSError"))
                    ELSE UnrpaRun(r.fs, fr, arc, target, t))

StepRpaFile(f, fr, t, jp) ==
    UnrpaOne(f, fr, fr.rpa_files[fr.i], jp.out \o <<S_rpa_extract, Stem(fr.rpa_files[fr.i])>>, t)

\* extract_rpi_with_rpatool
StepRpi(f, fr, t, jp) ==
    IF fr.mode \notin {"auto", "extract_rpi"} THEN St(f, Goto(fr, "pack"))
    ELSE IF fr.rpi_files = <<>> THEN St(f, Goto(Log(fr, "[extract_rpi] No .rpi files found."), "pack"))
    ELSE St(f, [fr EXCEPT !.pc = "rpi_file", !.i = 1])

\* _try_extract(matching), after the first attempt failed
RpiRetry(f, fr, matching, target, t) ==
    IF Outcome(fr) = "timeout" THEN St(f, Fail(Invoked(fr), 500, "Timeout"))
    ELSE IF Outcome(fr) = "ok" /\ IsFile(f, matching)
    THEN St(Extracted(f, target, t), NextFile(Log(Invoked(fr), "$ rpatool -x"), fr.rpi_files, "pack"))
    ELSE St(f, NextFile(Log(Log(Invoked(fr), "$ rpatool -x"), "[rpatool] failed"), fr.rpi_files, "pack"))

\* _try_extract(rpi) and what follows it, the target directory made
RpiRun(f, fr, rpi, matching, target, t) ==
    IF Outcome(fr) = "timeout" THEN St(f, Fail(Invoked(fr), 500, "Timeout"))
    ELSE IF Outcome(fr) = "ok" /\ IsFile(f, rpi)
    THEN St(Extracted(f, target, t), NextFile(Log(Invoked(fr), "$ rpatool -x"), fr.rpi_files, "pack"))
    ELSE IF ~Exists(f, matching) \/ matching = rpi
    THEN St(f, NextFile(Log(Log(Invoked(fr), "$ rpatool -x"), "[rpatool] failed"), fr.rpi_files, "pack"))
    ELSE RpiRetry(f, Log(Log(Invoked(fr), "$ rpatool -x"), "[rpatool] .rpi extract failed; trying matching data archive"),
                  matching, target, t)

\* the body of the loop of extract_rpi_with_rpatool on rpi
RpiOne(f, fr, rpi, matching, target, t) ==
    Bind(MkdirP(f, target, t),
         LAMBDA r : IF ~r.ok THEN St(r.fs, Fail(fr, 500, "OSError"))
                    ELSE RpiRun(r.fs, fr, rpi, matching, target, t))

StepRpiFile(f, fr, t, jp) ==
    RpiOne(f, fr, fr.rpi_files[fr.i], Append(jp.inp, Stem(fr.rpi_files[fr.i]) \o S_dotrpa),
           jp.out \o <<S_rpi_extract, Stem(fr.rpi_files[fr.i])>>, t)

\* the check of the pack source, base the side it is in
PackSource(f, fr, base, rel) ==
    IF ~rel.ok THEN St(f, Fail(fr, 500, "InvalidPath"))
    ELSE IF ~StrStartsWith(Resolve(Join(base, rel.val)), Resolve(base)) THEN St(f, Fail(fr, 400, "PathEscape"))
    ELSE St(f, [fr EXCEPT !.pc = "pk_src", !.source_dir = Resolve(Join(base, rel.val))])

StepPack(f, fr, t, jp) ==
    IF fr.op = "process" /\ fr.mode \notin {"auto", "pack_rpa"} THEN St(f, Goto(fr, "respond"))
    ELSE PackSource(f, fr, IF fr.pack_where = "input" THEN jp.inp ELSE jp.out,
                    ensure_safe_relpath_allow_empty(fr.pack_path))

\* pack_rpa_from_dir
StepPkSrc(f, fr, t, jp) ==
    IF ~IsDir(f, fr.source_dir)
    THEN St(f, Goto(Log(fr, "[pack] Source directory not found"), "respond"))
    ELSE St(f, Goto(fr, "pk_rm"))

StepPkRm(f, fr, t, jp) ==
    St(IF Exists(f, Append(jp.out, S_packroot)) THEN RmTree(f, Append(jp.out, S_packroot), t) ELSE f,
       Goto(fr, "pk_mk"))

StepPkMk(f, fr, t, jp) == OrOSError(MkdirP(f, Append(jp.out, S_packroot), t), fr, "pk_stage")

\* dst.parent.mkdir and dst.write_bytes(src.read_bytes()) for the file q
CopyOne(f, q, dst, t) ==
    IF ~IsFile(f, q) THEN Err(f)
    ELSE Then(MkdirP(f, Parent(dst), t), LAMBDA h : WriteFile(h, dst, f[q].data, t))

RECURSIVE CopyAll(_, _, _, _, _)
CopyAll(f, source_dir, packroot, files, t) ==
    IF files = <<>> THEN Ok(f)
    ELSE Then(CopyOne(f, Head(files), packroot \o SubSeq(Head(files), Len(source_dir) + 1, Len(Head(files))), t),
              LAMBDA h : CopyAll(h, source_dir, packroot, Tail(files), t))

RECURSIVE Repeat(_, _)
Repeat(c, n) == IF n = 0 THEN <<>> ELSE <<c>> \o Repeat(c, n - 1)

\* the files and the directories a listing of directory d yields
DirectFiles(f, d) == {q \in Children(f, d) : IsFile(f, q)}

SubDirs(f, d) == {q \in Children(f, d) : IsDir(f, q)}

\* the directories of d in the order of the listing: scandir fixes no
\* order, and only the place of the staging directory among the others
\* matters; the names in first come before it, the others after it
Listed(f, d, first) ==
    SetToSeq({q \in SubDirs(f, d) : Name(q) \in first})
        \o SetToSeq({q \in SubDirs(f, d) : Name(q) \notin first /\ Name(q) = S_packroot})
        \o SetToSeq({q \in SubDirs(f, d) : Name(q) \notin first /\ Name(q) # S_packroot})

\* a destination NestDepth staging directories deep is a path too long
TooLong(packroot, dst) == IsUnder(dst, packroot \o Repeat(S_packroot, NestDepth))

\* the staging loop over source_dir.rglob("*"), dirs the directories still
\* to visit: the files of a directory are copied, then the directory is
\* listed and each of its directories visited, so a copy made into a
\* directory before its visit is found there and copied again
RECURSIVE StageWalk(_, _, _, _, _, _)
StageWalk(f, source_dir, packroot, dirs, first, t) ==
    IF dirs = <<>> THEN Ok(f)
    ELSE IF /\ DirectFiles(f, Head(dirs)) # {}
            /\ TooLong(packroot, packroot \o SubSeq(Head(dirs), Len(source_dir) + 1, Len(Head(dirs))))
    THEN Err(f)
    ELSE Then(CopyAll(f, source_dir, packroot, SetToSeq(DirectFiles(f, Head(dirs))), t), LAMBDA h :
         Then(StageWalk(h, source_dir, packroot, Listed(h, Head(dirs), first), first, t), LAMBDA g :
              StageWalk(g, source_dir, packroot, Tail(dirs), first, t)))

\* the staging loop of pack_rpa_from_dir
Stage(f, source_dir, packroot, first, t) ==
    IF IsUnder(packroot, source_dir) THEN StageWalk(f, source_dir, packroot, <<source_dir>>, first, t)
    ELSE CopyAll(f, source_dir, packroot, SetToSeq(FilesUnder(f, source_dir)), t)

StepPkStage(f, fr, t, jp) ==
    OrOSError(Stage(f, fr.source_dir, Append(jp.out, S_packroot), fr.walked_first, t), fr, "pk_entries")

StepPkEntries(f, fr, t, jp) ==
    IF ~IsDir(f, Append(jp.out, S_packroot)) THEN St(f, Fail(fr, 500, "OSError"))
    ELSE IF Children(f, Append(jp.out, S_packroot)) = {}
    THEN St(f, Goto(Log(fr, "[pack] Source directory is empty."), "respond"))
    ELSE St(f, Goto(fr, "pk_unlink"))

\* out_dir / archive_name as the kernel resolves it
OutPath(f, out_dir, archive_name) == OsWalk(f, <<>>, Join(out_dir, archive_name))

\* out_path.unlink when out_path exists
UnlinkOut(f, out_path, t) == IF out_path.ok THEN Unlink(f, out_path.path, t) ELSE Ok(f)

StepPkUnlink(f, fr, t, jp) == OrOSError(UnlinkOut(f, OutPath(f, jp.out, fr.pack_name), t), fr, "pk_key")

StepPkKey(f, fr, t, jp) ==
    IF IsHexInt(fr.key_hex) THEN St(f, Goto(fr, "pk_run"))
    ELSE St(f, Goto(Log(fr, "[pack] Invalid key_hex"), "respond"))

\* what rpatool -c leaves: the archive at out_path
Archived(f, out_path, t) ==
    IF out_path.ok THEN WriteFile(f, out_path.path, Data("rpa", 1, <<>>), t) ELSE Err(f)

\* run_cmd of rpatool -c and the code after it
PackRun(f, fr, made) ==
    IF made.ok
    THEN St(made.fs, Goto(Log(Log(Invoked(fr), "$ rpatool -c"),
                              IF fr.op = "process" THEN "[pack] created" ELSE "[repack] created"),
                          "respond"))
    ELSE St(f, Goto(Log(Log(Invoked(fr), "$ rpatool -c"), "[pack] rpatool failed"), "respond"))

StepPkRun(f, fr, t, jp) ==
    IF ~IsDir(f, Append(jp.out, S_packroot)) THEN St(f, Fail(fr, 500, "OSError"))
    ELSE IF Outcome(fr) = "timeout" THEN St(f, Fail(Invoked(fr), 500, "Timeout"))
    ELSE IF Outcome(fr) # "ok" THEN PackRun(f, fr, Err(f))
    ELSE PackRun(f, fr, Archived(f, OutPath(f, jp.out, fr.pack_name), t))

\* walk_tree(jp.out) and the response
StepRespond(f, fr, t, jp) ==
    IF IsDir(f, jp.out) THEN St(f, [fr EXCEPT !.pc = "done", !.status = 200])
    ELSE St(f, Fail(fr, 500, "OSError"))

\* the statement at fr.pc, jp the paths of the job
StepAt(f, fr, t, jp) ==
    CASE fr.pc = "start" -> StepStart(f, fr, t, jp)
      [] fr.pc = "rm" -> StepRm(f, fr, t, jp)
      [] fr.pc = "mk" -> StepMk(f, fr, t, jp)
      [] fr.pc = "touch" -> StepTouch(f, fr, t, jp)
      [] fr.pc = "scan" -> StepScan(f, fr, t, jp)
      [] fr.pc = "decompile" -> StepDecompile(f, fr, t, jp)
      [] fr.pc = "dec_file" -> StepDecFile(f, fr, t, jp)
      [] fr.pc = "rpa" -> StepRpa(f, fr, t, jp)
      [] fr.pc = "rpa_file" -> StepRpaFile(f, fr, t, jp)
      [] fr.pc = "rpi" -> StepRpi(f, fr, t, jp)
      [] fr.pc = "rpi_file" -> StepRpiFile(f, fr, t, jp)
      [] fr.pc = "pack" -> StepPack(f, fr, t, jp)
      [] fr.pc = "pk_src" -> StepPkSrc(f, fr, t, jp)
      [] fr.pc = "pk_rm" -> StepPkRm(f, fr, t, jp)
      [] fr.pc = "pk_mk" -> StepPkMk(f, fr, t, jp)
      [] fr.pc = "pk_stage" -> StepPkStage(f, fr, t, jp)
      [] fr.pc = "pk_entries" -> StepPkEntries(f, fr, t, jp)
      [] fr.pc = "pk_unlink" -> StepPkUnlink(f, fr, t, jp)
      [] fr.pc = "pk_key" -> StepPkKey(f, fr, t, jp)
      [] fr.pc = "pk_run" -> StepPkRun(f, fr, t, jp)
      [] fr.pc = "respond" -> StepRespond(f, fr, t, jp)
      [] OTHER -> St(f, fr)

\* the statement at fr.pc of process_job (op = "process") or repack_job
\* (op = "repack"), run on file system f at time t: [fs, fr]
RawStep(f, fr, t) == StepAt(f, fr, t, job_paths(fr.job_id))

\* the part of the file system below a directory, without the times
View(f, root) == [q \in Subtree(f, root) |-> [kind |-> f[q].kind, data |-> f[q].data]]

\* the step r made from file system f, counted in nmut when it changed the
\* subtree below out
Counted(f, r, out) ==
    St(r.fs, IF View(r.fs, out) # View(f, out) THEN [r.fr EXCEPT !.nmut = @ + 1] ELSE r.fr)

\* RawStep, counting the statements that changed the job's output subtree
Step(f, fr, t) == Counted(f, RawStep(f, fr, t), job_paths(fr.job_id).out)

\* the handler run from fr.pc to its response with nothing in between
RECURSIVE RunToEnd(_, _, _)
RunToEnd(f, fr, t) ==
    IF fr.pc = "done" THEN St(f, fr)
    ELSE Bind(Step(f, fr, t), LAMBDA r : RunToEnd(r.fs, r.fr, t))

\* the response of a handler that ran as frames
FrameResp(r) == [fs |-> r.fs, status |-> r.fr.status, err |-> r.fr.err, ninv |-> r.fr.ninv]

---------------------------------------------------------------------------
(* What the clients send.                                                  *)

A1 == <<"a", "1">>

B2 == <<"b", "2">>

\* the identifiers uuid4 draws
GenIds == {A1, B2}

\* the identifiers a client puts in the URL of a request
ClientIds == GenIds \cup {DOT, DOTDOT}

N_a_rpyc == <<"a", ".", "r", "p", "y", "c">>

N_x_rpa == <<"x", ".", "r", "p", "a">>

N_x_rpi == <<"x", ".", "r", "p", "i">>

N_z_zip == <<"z", ".", "z", "i", "p">>

N_up_b == <<".", ".", "/", "b">>

N_up_e == <<".", ".", "/", "e">>

N_up_inputs_e == <<".", ".", "/", "i", "n", "p", "u", "t", "s", "/", "e">>

N_ok == <<"o", "k">>

N_d == <<"d">>

N_p_rpa == <<"p", ".", "r", "p", "a">>

N_other_meta == <<".", ".", "/", ".", ".", "/", "b", "2", "/", "m", "e", "t", "a", ".", "j", "s", "o", "n">>

N_own_meta == <<".", ".", "/", "m", "e", "t", "a", ".", "j", "s", "o", "n">>

K_good == <<"0", "x", "A">>

K_bad == <<"0", "x", "Z">>

UFile(filename, d) == [filename |-> filename, data |-> d]

ZEntry(filename) == [filename |-> filename, data |-> Data("member", 1, <<>>)]

\* the file lists of the upload requests
UploadReqs ==
    { <<UFile(N_a_rpyc, Data("A", 1, <<>>))>>,
      <<UFile(N_a_rpyc, Data("A", 1, <<>>)), UFile(N_up_b, Data("B", 1, <<>>))>>,
      <<UFile(N_x_rpa, Data("X", 1, <<>>)), UFile(N_x_rpi, Data("I", 2, <<>>))>>,
      <<UFile(N_z_zip, Data("zip", 1, <<ZEntry(N_ok), ZEntry(N_up_inputs_e)>>))>>,
      <<UFile(N_z_zip, Data("zip", 1, <<ZEntry(N_ok), ZEntry(N_up_e)>>))>> }

PReq(mode, pack_where, pack_path, pack_name, key_hex, tools) ==
    [mode |-> mode, pack_where |-> pack_where, pack_path |-> pack_path,
     pack_name |-> pack_name, key_hex |-> key_hex, tools |-> tools]

\* the parameters of the processing requests
ProcessReqs ==
    { PReq("decompile", "input", <<>>, N_p_rpa, K_good, <<>>),
      PReq("auto", "input", <<>>, N_p_rpa, K_good, <<>>),
      PReq("auto", "input", N_up_b, N_p_rpa, K_good, <<>>),
      PReq("auto", "output", <<>>, N_p_rpa, K_good, <<"fail">>),
      PReq("extract_rpa", "input", <<>>, N_p_rpa, K_good, <<"timeout">>),
      PReq("extract_rpi", "input", <<>>, N_p_rpa, K_good, <<"fail", "ok">>),
      PReq("pack_rpa", "input", <<>>, N_other_meta, K_good, <<>>),
      PReq("pack_rpa", "input", <<>>, N_own_meta, K_bad, <<>>) }

\* the parameters of the repack requests
RepackReqs ==
    { PReq("repack", "output", <<>>, N_p_rpa, K_good, <<>>),
      PReq("repack", "input", N_d, N_p_rpa, K_good, <<"fail">>) }

FrameOf(op, job_id, q) ==
    Frame(op, job_id, q.mode, q.pack_where, q.pack_path, q.pack_name, q.key_hex, q.tools)

Sides == {"input", "output"}

\* the relative paths of the file system requests
RelPaths == {N_a_rpyc, N_d, DOT, N_up_b}

---------------------------------------------------------------------------
(* The handlers as actions, each run in one piece.                         *)

\* the file system of a fresh deployment: "/", /tmp and JOB_ROOT
BaseFs == [q \in Prefixes(JOB_ROOT) |-> DirNode(0)]

NoProbe == [fn |-> "", arg |-> <<>>, ok |-> FALSE, val |-> <<>>]

\* the record of a step: the operation, the job it named, the response, the
\* files of an upload, the processor invocations made, and the entries a
\* sweep removed
Last(op, job_id, status, err, files, ninv) ==
    [op |-> op, job_id |-> job_id, status |-> status, err |-> err, files |-> files,
     ninv |-> ninv, removed |-> 0]

Init ==
    /\ fs = BaseFs
    /\ now = 0
    /\ reqs = <<>>
    /\ last = Last("init", <<>>, 0, "", <<>>, 0)
    /\ nops = 0
    /\ probe = NoProbe

\* a handler answered r to a request on job_id
Answer(op, job_id, r, files) ==
    /\ fs' = r.fs
    /\ last' = Last(op, job_id, r.status, r.err, files, r.ninv)
    /\ nops' = nops + 1
    /\ UNCHANGED <<now, reqs, probe>>

Upload ==
    /\ nops < MaxOps
    /\ \E job_id \in GenIds, files \in UploadReqs :
        /\ ~Exists(fs, job_paths(job_id).root)
        /\ Answer("upload", job_id, create_job(fs, job_id, files, now), files)

Process ==
    /\ nops < MaxOps
    /\ \E job_id \in ClientIds, q \in ProcessReqs :
        Answer("process", job_id, FrameResp(RunToEnd(fs, FrameOf("process", job_id, q), now)), <<>>)

Repack ==
    /\ nops < MaxOps
    /\ \E job_id \in GenIds, q \in RepackReqs :
        Answer("repack", job_id, FrameResp(RunToEnd(fs, FrameOf("repack", job_id, q), now)), <<>>)

JobTree ==
    /\ nops < MaxOps
    /\ \E job_id \in ClientIds, where \in Sides :
        Answer("tree", job_id, job_tree(fs, job_id, where, now), <<>>)

GetFile ==
    /\ nops < MaxOps
    /\ \E job_id \in GenIds, where \in Sides, path \in RelPaths :
        Answer("get_file", job_id, get_file(fs, job_id, path, where, now), <<>>)

SaveFile ==
    /\ nops < MaxOps
    /\ \E job_id \in GenIds, where \in Sides, path \in RelPaths :
        Answer("save", job_id, save_file(fs, job_id, Data("S", 1, <<>>), path, where, now), <<>>)

FsMove ==
    /\ nops < MaxOps
    /\ \E job_id \in GenIds, where \in Sides, src \in RelPaths, dst \in RelPaths, overwrite \in BOOLEAN :
        Answer("move", job_id, fs_move(fs, job_id, where, src, dst, overwrite, now), <<>>)

FsMkdir ==
    /\ nops < MaxOps
    /\ \E job_id \in GenIds, where \in Sides, path \in RelPaths :
        Answer("mkdir", job_id, fs_mkdir(fs, job_id, where, path, now), <<>>)

FsDelete ==
    /\ nops < MaxOps
    /\ \E job_id \in GenIds, where \in Sides, path \in RelPaths :
        Answer("delete", job_id, fs_delete(fs, job_id, where, path, now), <<>>)

Download ==
    /\ nops < MaxOps
    /\ \E job_id \in GenIds, where \in Sides, zip_all \in BOOLEAN, path \in {<<>>, N_a_rpyc} :
        Answer("download", job_id, download(fs, job_id, where, zip_all, path, now), <<>>)

Next ==
    \/ Upload
    \/ Process
    \/ Repack
    \/ JobTree
    \/ GetFile
    \/ SaveFile
    \/ FsMove
    \/ FsMkdir
    \/ FsDelete
    \/ Download

Spec == Init /\ [][Next]_vars

---------------------------------------------------------------------------
(* The containment claims, on the handlers run in one piece (Spec).       *)

\* the paths a step from file system f to file system g created, deleted or
\* gave another content
Changed(f, g) ==
    {q \in DOMAIN f \cup DOMAIN g :
        \/ q \notin DOMAIN f
        \/ q \notin DOMAIN g
        \/ f[q].kind # g[q].kind
        \/ f[q].data # g[q].data}

\* the operations of the clients that change files
MutatingOps == {"upload", "process", "repack", "save", "move", "mkdir", "delete", "download"}

\* C1: every file or directory that an operation on job J creates, overwrites
\* or deletes lies inside J's own root directory, whatever strings the
\* client supplied; nothing changes in another job's workspace or outside
\* the jobs root.  (Stated for the jobs createJob made.)
C1_OnlyInsideOwnRoot ==
    [][(last'.op \in MutatingOps /\ last'.job_id \in GenIds)
        => \A q \in Changed(fs, fs') : IsUnder(q, JOB_ROOT \o <<last'.job_id>>)]_vars

\* a processing request with an archive name that climbs out of the output
\* directory has replaced the metadata record of another job
C1_OtherJobChanged ==
    /\ last.op = "process"
    /\ last.job_id = A1
    /\ IsFile(fs, JOB_ROOT \o <<B2, S_meta>>)
    /\ fs[JOB_ROOT \o <<B2, S_meta>>].data.id = "rpa"

\* C2: for every job identifier an operation accepts, the job root it
\* resolves to is a direct child of the jobs root: not the jobs root itself,
\* not an ancestor of it, not a directory nested inside another job.
C2_RootIsChildOfJobsRoot ==
    (last.op # "init" /\ last.err # "JobNotFound")
        => /\ Len(job_paths(last.job_id).root) = Len(JOB_ROOT) + 1
           /\ Parent(job_paths(last.job_id).root) = JOB_ROOT

\* a processing request was accepted for an identifier whose root is the
\* parent of the jobs root, and made its output directory there
C2_AncestorAccepted ==
    /\ last.op = "process"
    /\ last.job_id = DOTDOT
    /\ last.status = 200
    /\ IsDir(fs, <<S_tmp, S_output>>)

\* an uploaded archive of the request holds a member whose target resolves
\* outside the destination directory
HasEscapingEntry(job_id, files) ==
    \E i \in 1..Len(files) : \E j \in 1..Len(files[i].data.entries) :
        ~IsUnder(Resolve(Join(job_paths(job_id).inp, files[i].data.entries[j].filename)),
                 job_paths(job_id).inp)

\* a member of an uploaded archive of the request is in the file system
SomeEntryWritten(f, job_id, files) ==
    \E i \in 1..Len(files) : \E j \in 1..Len(files[i].data.entries) :
        \/ Exists(f, MemberTarget(job_paths(job_id).inp, files[i].data.entries[j].filename))
        \/ Exists(f, Resolve(Join(job_paths(job_id).inp, files[i].data.entries[j].filename)))

\* C4: when an uploaded zip holds an entry whose target resolves outside the
\* destination directory, ingestion rejects the whole archive with
\* UnsafeArchiveEntry and writes none of the archive's entries.
C4_EscapingZipRejectedWhole ==
    (last.op = "upload" /\ HasEscapingEntry(last.job_id, last.files))
        => /\ last.err = "UnsafeArchiveEntry"
           /\ ~SomeEntryWritten(fs, last.job_id, last.files)

\* an archive with the member ../inputs/e was taken in and unpacked
C4_EscapingZipUnpacked ==
    /\ last.op = "upload"
    /\ HasEscapingEntry(last.job_id, last.files)
    /\ last.status = 200
    /\ SomeEntryWritten(fs, last.job_id, last.files)

\* C9: when a processing request fails with job-not-found or with a
\* validation failure of the pack source path, the job's output subtree is
\* what it was before the request and no processor was invoked.  (Stated
\* for the jobs createJob made.)
C9_FailsBeforeMutation ==
    [][(/\ last'.op = "process"
        /\ last'.job_id \in GenIds
        /\ last'.err \in {"JobNotFound", "InvalidPath", "PathEscape"})
        => /\ View(fs', job_paths(last'.job_id).out) = View(fs, job_paths(last'.job_id).out)
           /\ last'.ninv = 0]_vars

\* a processing request failed on its pack source path after the decompiler
\* had run and left its files in the output
C9_FailedAfterProcessing ==
    /\ last.op = "process"
    /\ last.job_id \in GenIds
    /\ last.err = "InvalidPath"
    /\ last.ninv > 0
    /\ FilesUnder(fs, job_paths(last.job_id).out) # {}

\* a file name of the request has a parent-traversal segment
HasUnsafeName(files) == \E i \in 1..Len(files) : HasDotDot(SafeName(files[i].filename))

\* C10: if a file name of an upload request is unsafe, the request fails
\* with InvalidPath before any mutation: no job workspace is created or left
\* behind, and no file of the request is written.
C10_UnsafeNameNothingWritten ==
    (last.op = "upload" /\ HasUnsafeName(last.files))
        => /\ last.err = "InvalidPath"
           /\ ~Exists(fs, job_paths(last.job_id).root)

\* an upload failed on its second name and left the workspace and the first
\* file behind
C10_WorkspaceLeftBehind ==
    /\ last.op = "upload"
    /\ last.err = "InvalidPath"
    /\ IsFile(fs, Append(job_paths(last.job_id).inp, N_a_rpyc))

---------------------------------------------------------------------------
(* Path validation as a function of the client's string (SpecPath): the    *)
(* string is drawn, ensure_safe_relpath is applied to it, and what it      *)
(* returned is joined to a side root and canonicalised, as the handlers    *)
(* do.                                                                     *)

\* the characters of the drawn strings: a letter, the dot, the separator, a
\* blank and a character outside the class of SAFE_PATH_RE
PathAlphabet == {"a", ".", "/", " ", "*"}

RECURSIVE StringsUpTo(_)
StringsUpTo(n) ==
    IF n = 0 THEN {<<>>}
    ELSE StringsUpTo(n - 1) \cup {Append(s, c) : s \in StringsUpTo(n - 1), c \in PathAlphabet}

PathStrings == StringsUpTo(MaxLen)

\* the side root the accepted strings are joined to
ProbeRoot == SideRoot(A1, "output")

Probed(fn, arg, r) == [fn |-> fn, arg |-> arg, ok |-> r.ok, val |-> r.val]

InitPath ==
    /\ fs = BaseFs
    /\ now = 0
    /\ reqs = <<>>
    /\ last = Last("init", <<>>, 0, "", <<>>, 0)
    /\ nops = 0
    /\ probe \in {Probed("", s, Raised) : s \in PathStrings}

\* rel = ensure_safe_relpath(path)
Validate ==
    /\ probe.fn = ""
    /\ probe' = Probed("ensure_safe_relpath", probe.arg, ensure_safe_relpath(probe.arg))
    /\ UNCHANGED <<fs, now, reqs, last, nops>>

\* full = (root / rel).resolve()
ResolveAccepted ==
    /\ probe.fn = "ensure_safe_relpath"
    /\ probe.ok
    /\ probe' = Probed("resolve", probe.arg, Returned(Resolve(Join(ProbeRoot, probe.val))))
    /\ UNCHANGED <<fs, now, reqs, last, nops>>

NextPath ==
    \/ Validate
    \/ ResolveAccepted

SpecPath == InitPath /\ [][NextPath]_vars

\* the strings the validation is to reject: empty, with a character outside
\* alphanumerics, "_", "-", ".", "/", with a leading "/", or with a ".."
\* component
ToReject(s) ==
    \/ s = <<>>
    \/ ~(Range(s) \subseteq SafeChars)
    \/ Head(s) = "/"
    \/ \E i \in 1..Len(Split(s, "/")) : Split(s, "/")[i] = DOTDOT

\* C3: ensure_safe_relpath rejects every string that is empty, has a
\* character outside alphanumerics, "_", "-", ".", "/", begins with "/" or has
\* a ".." component, and accepts every other string; every accepted string,
\* joined to a side root and canonicalised, is a descendant of that root.
C3_ValidationExact ==
    /\ probe.fn = "ensure_safe_relpath" => (probe.ok <=> ~ToReject(probe.arg))
    /\ probe.fn = "resolve" => (IsUnder(probe.val, ProbeRoot) /\ probe.val # ProbeRoot)

\* the string "." was accepted and resolved to the side root itself
C3_DotIsTheRoot ==
    /\ probe.fn = "resolve"
    /\ probe.arg = DOT
    /\ probe.val = ProbeRoot

\* a string with a blank was accepted
C3_BlankAccepted ==
    /\ probe.fn = "ensure_safe_relpath"
    /\ probe.ok
    /\ " " \in Range(probe.arg)

---------------------------------------------------------------------------
(* Two processing requests on one job and a reader, in the thread pool     *)
(* (SpecConc): the requests run statement by statement, in any order; the  *)
(* reader asks for the output tree.                                        *)

\* the upload that made the job
ConcFiles == <<UFile(N_a_rpyc, Data("A", 1, <<>>))>>

\* the file system after that upload
ConcFs == create_job(BaseFs, A1, ConcFiles, 0).fs

\* the parameters of the two processing requests
ConcReq == PReq("decompile", "input", <<>>, N_p_rpa, K_good, <<>>)

\* the output directory of the job
OutA1 == job_paths(A1).out

InitConc ==
    /\ fs = ConcFs
    /\ now = 0
    /\ reqs = <<>>
    /\ last = Last("upload", A1, 200, "", ConcFiles, 0)
    /\ nops = 1
    /\ probe = NoProbe

\* process_job is called while fewer than n calls were made: a worker thread
\* holds its frame
Called(n) ==
    /\ Len(reqs) < n
    /\ reqs' = Append(reqs, FrameOf("process", A1, ConcReq))
    /\ UNCHANGED <<fs, now, last, nops, probe>>

StartProcess == Called(2)

\* the worker of request i ran its statement, with the result r
Stepped(i, r) ==
    /\ fs' = r.fs
    /\ reqs' = [reqs EXCEPT ![i] = r.fr]
    /\ UNCHANGED <<now, last, nops, probe>>

StepReq == \E i \in DOMAIN reqs : reqs[i].pc # "done" /\ Stepped(i, Step(fs, reqs[i], now))

\* the requests that were called and have not responded
InFlight == {i \in DOMAIN reqs : reqs[i].pc # "done"}

\* job_tree answered r to the reader, with n requests in flight
Observed(r, n) ==
    /\ fs' = r.fs
    /\ probe' = [fn |-> "job_tree", arg |-> n, ok |-> r.status = 200, val |-> View(r.fs, OutA1)]
    /\ UNCHANGED <<now, reqs, last, nops>>

ReadTree == Observed(job_tree(fs, A1, "output", now), Cardinality(InFlight))

NextConc ==
    \/ StartProcess
    \/ StepReq
    \/ ReadTree

SpecConc == InitConc /\ [][NextConc]_vars

\* the file system after one of the requests ran alone
AloneFs == RunToEnd(ConcFs, FrameOf("process", A1, ConcReq), 0).fs

\* the output trees between the requests when they run one after the other
SerialViews == {View(ConcFs, OutA1), View(AloneFs, OutA1)}

\* C5: under any interleaving of two simultaneous processing requests on
\* one job, once both have completed the output subtree misses no file that
\* a request run alone would have produced, and a concurrent reader never
\* observes an interleaved partial output state.
C5_NoPartialOutput ==
    /\ (Len(reqs) = 2 /\ InFlight = {})
           => \A q \in FilesUnder(AloneFs, OutA1) : IsFile(fs, q)
    /\ (probe.fn = "job_tree" /\ probe.arg = 2)
           => (probe.ok /\ probe.val \in SerialViews)

\* with both requests in flight the reader was told that the job does not
\* exist: a request had removed the output directory
C5_ReaderSawNoOutput ==
    /\ probe.fn = "job_tree"
    /\ probe.arg = 2
    /\ ~probe.ok

\* request i is between its first and its last mutation of the job's output
\* subtree: it has changed the subtree, and run on from here it changes it
\* again
InSection(i) ==
    /\ reqs[i].pc # "done"
    /\ reqs[i].nmut >= 1
    /\ RunToEnd(fs, reqs[i], now).fr.nmut > reqs[i].nmut

\* C6: the operations that mutate one job's output subtree are mutually
\* exclusive per job: at no time are two of them both between their first
\* and their last mutation of that subtree.
C6_MutualExclusion == \A i, j \in DOMAIN reqs : i # j => ~(InSection(i) /\ InSection(j))

\* both requests have removed the output directory and both are still to
\* write their decompiled files
C6_BothInside ==
    /\ Len(reqs) = 2
    /\ InSection(1)
    /\ InSection(2)
    /\ reqs[1].pc = "dec_file"
    /\ reqs[2].pc = "dec_file"

---------------------------------------------------------------------------
(* The janitor beside a request in the thread pool (SpecJanitor): the      *)
(* clock advances between the statements of the requests, and the sweep of *)
(* _periodic_cleanup runs whenever the event loop wakes it.                *)

Tick ==
    /\ now < MaxTime
    /\ now' = now + 1
    /\ last' = Last("tick", <<>>, 0, "", <<>>, 0)
    /\ UNCHANGED <<fs, reqs, nops, probe>>

\* cleanup_jobs returned r
Swept(r) ==
    /\ fs' = r.fs
    /\ last' = [Last("sweep", <<>>, 200, "", <<>>, 0) EXCEPT !.removed = r.removed]
    /\ UNCHANGED <<now, reqs, nops, probe>>

\* one round of _periodic_cleanup
Sweep == Swept(cleanup_jobs(fs, JOB_TTL_SECONDS, now))

\* the request the janitor runs beside
StartOne == Called(1)

NextJanitor ==
    \/ StartOne
    \/ StepReq
    \/ Tick
    \/ Sweep

SpecJanitor == InitConc /\ [][NextJanitor]_vars

\* request i has found its job and has not responded
Working(i) == reqs[i].pc \notin {"start", "done"}

\* C7: a sweep never removes a job's workspace while a client operation on
\* that job is in progress; a job held by an in-flight operation is skipped.
C7_SweepSkipsBusyJobs ==
    [][\A i \in DOMAIN reqs :
          (Working(i) /\ Exists(fs, job_paths(reqs[i].job_id).root))
              => Exists(fs', job_paths(reqs[i].job_id).root)]_vars

\* the sweep removed a job and a request on it is still at work
C7_SweptUnderRequest ==
    /\ last.op = "sweep"
    /\ last.removed = 1
    /\ \E i \in DOMAIN reqs : Working(i) /\ ~Exists(fs, job_paths(reqs[i].job_id).root)

---------------------------------------------------------------------------
(* Expiry (SpecSweep): jobs are made, touched and lose their metadata      *)
(* record while the clock advances, and the janitor sweeps.                *)

\* a processing request whose archive name is the metadata record and whose
\* key is no number: pack_rpa_from_dir unlinks the record and returns
MetaReq == PReq("pack_rpa", "input", <<>>, N_own_meta, K_bad, <<>>)

Arrive ==
    /\ nops < MaxOps
    /\ \E job_id \in GenIds :
        /\ ~Exists(fs, job_paths(job_id).root)
        /\ Answer("upload", job_id, create_job(fs, job_id, ConcFiles, now), ConcFiles)

Touch ==
    /\ nops < MaxOps
    /\ \E job_id \in GenIds : Answer("tree", job_id, job_tree(fs, job_id, "input", now), <<>>)

DropMeta ==
    /\ nops < MaxOps
    /\ \E job_id \in GenIds :
        Answer("process", job_id, FrameResp(RunToEnd(fs, FrameOf("process", job_id, MetaReq), now)), <<>>)

NextSweep ==
    \/ Arrive
    \/ Touch
    \/ DropMeta
    \/ Tick
    \/ Sweep

SpecSweep == Init /\ [][NextSweep]_vars

\* the effective last-access time of a job, in ticks: the time of the
\* metadata record if the record exists, the job directory's own otherwise
LastAccess(f, job_dir) ==
    IF Exists(f, Append(job_dir, S_meta)) THEN f[Append(job_dir, S_meta)].mtime ELSE f[job_dir].mtime

\* the age of a job at time t, in ticks
Age(f, job_dir, t) == t - LastAccess(f, job_dir)

\* C8 as the program keeps it: a sweep with time-to-live T removes every job
\* whose effective last-access time is at least T + 1 seconds old at sweep
\* time, and retains every job whose last-access time is within T; the
\* times are compared in whole seconds, so a job older than T by less than
\* a second may stay until a later sweep.
C8_SweepByWholeSeconds ==
    [][last'.op = "sweep"
        => \A d \in JobDirs(fs) :
              /\ Age(fs, d, now) >= (JOB_TTL_SECONDS + 1) * TicksPerSec => ~Exists(fs', d)
              /\ Age(fs, d, now) <= JOB_TTL_SECONDS * TicksPerSec => Exists(fs', d)]_vars

\* a sweep removed one job and kept the other, whose metadata record is
\* within the time-to-live
C8_OneRemovedOneKept ==
    /\ last.op = "sweep"
    /\ last.removed = 1
    /\ \E d \in JobDirs(fs) : Exists(fs, Append(d, S_meta)) /\ Age(fs, d, now) <= JOB_TTL_SECONDS * TicksPerSec
    /\ Cardinality(JobDirs(fs)) = 1
    /\ nops >= 3

\* C8: a sweep with time-to-live T removes every job whose effective
\* last-access time is older than T at sweep time, and retains every job
\* whose last-access time is within T.
C8_SweepExactlyOlderThanTTL ==
    [][last'.op = "sweep"
        => \A d \in JobDirs(fs) :
              /\ Age(fs, d, now) > JOB_TTL_SECONDS * TicksPerSec => ~Exists(fs', d)
              /\ Age(fs, d, now) <= JOB_TTL_SECONDS * TicksPerSec => Exists(fs', d)]_vars

---------------------------------------------------------------------------
(* One processing or repack request at a time (SpecProc): a job is         *)
(* uploaded, an earlier request may have left something in its output, and *)
(* then one request is served from its call to its response.  The final    *)
(* frame of the request is kept in reqs, the request and the file system   *)
(* it was called on in probe.                                              *)

\* most processor invocations a request of the model makes
MaxInv == 6

N_b_rpyc == <<"b", ".", "r", "p", "y", "c">>

N_y_rpa == <<"y", ".", "r", "p", "a">>

Empty(id) == Data(id, 0, <<>>)

\* the file lists of the uploads that make the job
ProcFiles ==
    { <<UFile(N_a_rpyc, Empty("A")), UFile(N_b_rpyc, Empty("B")),
        UFile(N_x_rpa, Empty("X")), UFile(N_x_rpi, Empty("I"))>>,
      <<UFile(N_x_rpa, Empty("X")), UFile(N_y_rpa, Empty("Y"))>>,
      <<UFile(N_x_rpi, Empty("I"))>> }

\* the outcomes of the invocations of a request: all succeed, one of them
\* exits non-zero or exceeds its timeout, or all exit non-zero
ToolSeqs ==
    {<<>>, Repeat("fail", MaxInv)}
        \cup {Append(Repeat("ok", k - 1), o) : k \in 1..MaxInv, o \in {"fail", "timeout"}}

Modes == {"auto", "decompile", "extract_rpa", "extract_rpi", "pack_rpa"}

\* the pack source and the key of a request: <<where, path, key_hex>>
PackArgs ==
    { <<"input", <<>>, K_good>>, <<"input", <<>>, K_bad>>, <<"output", <<>>, K_good>>,
      <<"input", N_up_b, K_good>>, <<"input", N_d, K_good>> }

\* the requests served: process_job in each mode and repack_job
ProcReqs ==
    { PReq(mode, a[1], a[2], N_p_rpa, a[3], tools) :
        mode \in {"auto", "pack_rpa", "repack"}, a \in PackArgs, tools \in ToolSeqs }
        \cup { PReq(mode, "input", <<>>, N_p_rpa, K_good, tools) :
                  mode \in Modes \ {"auto", "pack_rpa"}, tools \in ToolSeqs }

OpOf(q) == IF q.mode = "repack" THEN "repack" ELSE "process"

\* the upload that makes the job
Land ==
    /\ nops = 0
    /\ \E files \in ProcFiles : Answer("upload", A1, create_job(fs, A1, files, now), files)

\* a request before the one served: it leaves directories, processed files
\* or an archive in the output
Prepare ==
    /\ last.op = "upload"
    /\ reqs = <<>>
    /\ \/ Answer("mkdir", A1, fs_mkdir(fs, A1, "output", N_d, now), <<>>)
       \/ \E q \in ProcessReqs \cup RepackReqs :
             Answer(OpOf(q), A1, FrameResp(RunToEnd(fs, FrameOf(OpOf(q), A1, q), now)), <<>>)

\* the handler answered the request q with the final frame r.fr
Served(q, r) ==
    /\ fs' = r.fs
    /\ reqs' = <<r.fr>>
    /\ last' = Last(r.fr.op, r.fr.job_id, r.fr.status, r.fr.err, <<>>, r.fr.ninv)
    /\ probe' = [fn |-> "serve", arg |-> fs, ok |-> r.fr.status = 200, val |-> q]
    /\ nops' = nops + 1
    /\ UNCHANGED now

Serve ==
    /\ nops > 0
    /\ reqs = <<>>
    /\ \E q \in ProcReqs : Served(q, RunToEnd(fs, FrameOf(OpOf(q), A1, q), now))

NextProc ==
    \/ Land
    \/ Prepare
    \/ Serve

SpecProc == Init /\ [][NextProc]_vars

\* a request was served
WasServed == Len(reqs) = 1 /\ probe.fn = "serve"

\* the outcomes of the invocations the served request made
Consumed == SubSeq(probe.val.tools, 1, IF reqs[1].ninv < Len(probe.val.tools) THEN reqs[1].ninv
                                       ELSE Len(probe.val.tools))

\* how many of the outcomes were o
NOutcome(o) == Cardinality({i \in 1..Len(Consumed) : Consumed[i] = o})

\* how many lines of the log are in the set S
Lines(logs, S) == Cardinality({i \in 1..Len(logs) : logs[i] \in S})

\* the log lines that record a failed invocation
FailureLines ==
    {"[unrpyc] error on", "[unrpa] failed", "[rpatool] failed",
     "[rpatool] .rpi extract failed; trying matching data archive", "[pack] rpatool failed"}

\* the log lines pack_rpa_from_dir starts or ends with
PackLines ==
    {"[pack] Source directory not found", "[pack] Source directory is empty.",
     "[pack] Invalid key_hex", "$ rpatool -c"}

\* the served request asked for the mode m
Asked(m) == reqs[1].op = "process" /\ reqs[1].mode \in {"auto", m}

\* the frame of the served request had every invocation succeeded
SameWithoutFailure ==
    RunToEnd(probe.arg, FrameOf(reqs[1].op, reqs[1].job_id, [probe.val EXCEPT !.tools = <<>>]), now).fr

\* C11: when a processor invocation fails during a processing request (an
\* extractor or the packer exits non-zero, the decompiler raises on a file),
\* the failure is recorded as a log line, every remaining file of the mode
\* and every remaining requested mode is still processed, and the request
\* answers as it does without the failure: with a success response and the
\* collected logs.
C11_FailureLoggedRequestGoesOn ==
    (WasServed /\ NOutcome("fail") >= 1 /\ NOutcome("timeout") = 0)
        => /\ Lines(reqs[1].logs, FailureLines) >= NOutcome("fail")
           /\ (Asked("decompile") /\ reqs[1].rpyc_files # <<>>)
                  => Lines(reqs[1].logs, {"[unrpyc] decompiled", "[unrpyc] error on"})
                         = Len(reqs[1].rpyc_files)
           /\ Asked("extract_rpa") => Lines(reqs[1].logs, {"$ unrpa"}) = Len(reqs[1].rpa_files)
           /\ Asked("extract_rpi")
                  => Lines(reqs[1].logs, {"$ rpatool -x"})
                         - Lines(reqs[1].logs, {"[rpatool] .rpi extract failed; trying matching data archive"})
                         = Len(reqs[1].rpi_files)
           /\ Asked("pack_rpa")
                  => \/ Lines(reqs[1].logs, PackLines) >= 1
                     \/ reqs[1].err \in {"InvalidPath", "PathEscape", "OSError"}
           /\ SameWithoutFailure.status = 200 => reqs[1].status = 200

\* the first archive of an auto request failed to extract: the failure is in
\* the log, the second archive was extracted and the request answered 200
C11_SecondArchiveExtracted ==
    /\ WasServed
    /\ reqs[1].mode = "auto"
    /\ Len(reqs[1].rpa_files) = 2
    /\ Consumed = <<"fail">>
    /\ reqs[1].status = 200
    /\ Lines(reqs[1].logs, {"[unrpa] failed"}) = 1
    /\ IsFile(fs, job_paths(A1).out \o <<S_rpa_extract, Stem(reqs[1].rpa_files[2]), S_member>>)

\* the outcomes of the request with each timeout replaced by a non-zero exit
TimeoutsAsFailures ==
    [i \in 1..Len(probe.val.tools) |->
        IF probe.val.tools[i] = "timeout" THEN "fail" ELSE probe.val.tools[i]]

\* the frame of the served request had its timeout been a non-zero exit
SameWithExit ==
    RunToEnd(probe.arg, FrameOf(reqs[1].op, reqs[1].job_id,
                                [probe.val EXCEPT !.tools = TimeoutsAsFailures]), now).fr

\* C12: an invocation that exceeds its timeout is treated as a failed
\* invocation: the log gains a line recording a distinct timed-out outcome,
\* and processing continues with the next archive and the next mode exactly
\* as after a non-zero exit, the request still answering with success.
C12_TimeoutIsAFailedInvocation ==
    (WasServed /\ NOutcome("timeout") >= 1)
        => /\ reqs[1].status = SameWithExit.status
           /\ Len(reqs[1].logs) >= Len(SameWithExit.logs)
           /\ reqs[1].logs # SameWithExit.logs

\* an extractor of an auto request exceeded its timeout: the request ended
\* with an error response and the pack mode never ran
C12_TimeoutEndedRequest ==
    /\ WasServed
    /\ reqs[1].mode = "auto"
    /\ NOutcome("timeout") = 1
    /\ reqs[1].status = 500
    /\ reqs[1].err = "Timeout"
    /\ SameWithExit.status = 200
    /\ Lines(reqs[1].logs, PackLines) = 0

\* the served request reached the parse of its key, and the key is no
\* hexadecimal integer
KeyRefused ==
    /\ WasServed
    /\ ~IsHexInt(probe.val.key_hex)
    /\ Lines(reqs[1].logs, {"[pack] Invalid key_hex"}) = 1

\* C13: a pack or repack request whose key is not parsable as a hexadecimal
\* integer fails with an InvalidKey error rather than a success response; no
\* archive file is created and the packer is never invoked.
C13_BadKeyFailsRequest ==
    KeyRefused
        => /\ reqs[1].status # 200
           /\ reqs[1].err = "InvalidKey"
           /\ ~Exists(fs, Append(job_paths(A1).out, N_p_rpa))
           /\ Lines(reqs[1].logs, {"$ rpatool -c"}) = 0

\* a repack request with the key "0xZ" was answered with success
C13_BadKeyAnswered200 ==
    /\ KeyRefused
    /\ reqs[1].op = "repack"
    /\ reqs[1].status = 200
    /\ reqs[1].err = ""

\* the file system the served request leaves when the output directory is
\* empty at its call
OnEmptyOutput ==
    RunToEnd(RmTree(probe.arg, OutA1, now), FrameOf(reqs[1].op, reqs[1].job_id, probe.val), now).fs

\* what was below the output directory when the served request was called
OutputBefore == Subtree(probe.arg, OutA1) \ {OutA1}

\* C14: after a processing invocation the output subtree is a full
\* replacement: nothing that was in the output subtree before the invocation
\* (left by an earlier run, or made by mkdir, move, save or repack) is still
\* there unless the invocation produced it again, as it does on an empty
\* output.  (Requests served one at a time.)
C14_OutputFullyReplaced ==
    (WasServed /\ reqs[1].op = "process")
        => \A p \in OutputBefore :
              Exists(fs, p) => /\ Exists(OnEmptyOutput, p)
                               /\ OnEmptyOutput[p].kind = fs[p].kind
                               /\ OnEmptyOutput[p].data = fs[p].data

\* a processing request was answered with success; the directory an earlier
\* mkdir had made in the output is gone, and the output holds what the
\* request produced
C14_EarlierDirectoryGone ==
    /\ WasServed
    /\ reqs[1].op = "process"
    /\ reqs[1].status = 200
    /\ Append(OutA1, N_d) \in OutputBefore
    /\ ~Exists(fs, Append(OutA1, N_d))
    /\ FilesUnder(fs, OutA1) # {}

\* the log lines of the four modes, in the order process_job runs them
BlockLines ==
    << {"[decompile] No .rpyc files found.", "[unrpyc] decompiled", "[unrpyc] error on"},
       {"[extract_rpa] No .rpa files found.", "$ unrpa", "[unrpa] failed"},
       {"[extract_rpi] No .rpi files found.", "$ rpatool -x", "[rpatool] failed",
        "[rpatool] .rpi extract failed; trying matching data archive"},
       PackLines \cup {"[pack] rpatool failed", "[pack] created"} >>

\* the mode a log line belongs to
ModeOfLine(line) == CHOOSE m \in 1..4 : line \in BlockLines[m]

\* the served request is process_job in auto mode
AutoServed == WasServed /\ reqs[1].op = "process" /\ reqs[1].mode = "auto"

\* the mode m of the served request ran: it left its lines in the log, or it
\* is the pack mode and ended the request on its source
ModeRan(m) ==
    \/ Lines(reqs[1].logs, BlockLines[m]) >= 1
    \/ m = 4 /\ reqs[1].err \in {"InvalidPath", "PathEscape", "OSError"}

\* C20: a processing request in auto mode runs decompile, the extraction of
\* .rpa archives, the extraction of .rpi archives and pack, each exactly
\* once, in that order; whether a later mode runs does not depend on whether
\* an earlier mode found files, and the log lists each mode's lines as one
\* block, in the same order.
C20_AutoRunsEveryModeInOrder ==
    AutoServed
        => /\ \A m \in 1..4 : ModeRan(m)
           /\ \A i, j \in 1..Len(reqs[1].logs) :
                 i < j => ModeOfLine(reqs[1].logs[i]) <= ModeOfLine(reqs[1].logs[j])

\* an auto request decompiled its files, then unrpa exceeded its timeout:
\* the job's .rpi archive was never extracted and nothing was packed
C20_LaterModesNeverRan ==
    /\ AutoServed
    /\ reqs[1].err = "Timeout"
    /\ reqs[1].rpi_files # <<>>
    /\ ModeRan(1)
    /\ ~ModeRan(3)
    /\ ~ModeRan(4)
    /\ ~Exists(fs, Append(OutA1, S_rpi_extract))

\* every auto request that no timeout ended ran the four modes
AutoCompleteWithoutTimeout == (AutoServed /\ reqs[1].err # "Timeout") => C20_AutoRunsEveryModeInOrder

---------------------------------------------------------------------------
(* The upload chunk by chunk (SpecUpload): create_job is a coroutine that  *)
(* gives way at every read of a chunk, so its loop is run one statement at *)
(* a time here; its frame counts the chunks it passed to out.write.        *)

\* largest upload file of the model, in chunks
MaxSize == 3

\* the files of the uploads: plain files of every size, and archives with
\* members of one chunk each
ChunkFiles ==
    { UFile(N_a_rpyc, Data("A", n, <<>>)) : n \in 0..MaxSize }
        \cup { UFile(N_x_rpa, Data("X", n, <<>>)) : n \in 0..MaxSize }
        \cup { UFile(N_z_zip, Data("zip", 1, <<ZEntry(N_ok)>>)),
               UFile(N_z_zip, Data("zip", 1, <<ZEntry(N_ok), ZEntry(N_d), ZEntry(N_p_rpa)>>)) }

\* the file lists of the upload requests
ChunkReqs == { <<a>> : a \in ChunkFiles } \cup { <<a, b>> : a, b \in ChunkFiles }

\* the frame of a create_job call
UpFrame(job_id, files) ==
    [op |-> "upload", job_id |-> job_id, files |-> files, pc |-> "new", status |-> 0, err |-> "",
     i |-> 1, k |-> 0, total |-> 0, written |-> 0]

\* create_job up to its loop
UpNew(f, fr, t) ==
    IF fr.files = <<>> THEN St(f, Fail(fr, 400, "NoFiles"))
    ELSE OrOSError(new_job(f, fr.job_id, t), fr, "name")

\* the response after the loop
UpRespond(f, fr, r) == St(r.fs, [fr EXCEPT !.pc = "done", !.status = r.status, !.err = r.err])

\* the head of the loop body: the name of the file is checked and dest opened
UpOpen(f, fr, dest, t) ==
    IF HasDotDot(SafeName(fr.files[fr.i].filename)) THEN St(f, Fail(fr, 400, "InvalidPath"))
    ELSE OrOSError(Then(MkdirP(f, Parent(dest), t),
                        LAMBDA g : WriteFile(g, dest, Written(fr.files[fr.i].data, 0), t)),
                   [fr EXCEPT !.k = 0], "chunk")

\* UpChunk were the chunk written before the total is compared
UpChunkWritingFirst(f, fr, d, dest, t) ==
    IF fr.k = d.size THEN St(f, Goto(fr, "close"))
    ELSE IF fr.total + 1 > MAX_UPLOAD_MB
    THEN St(WriteFile(f, dest, Written(d, fr.k + 1), t).fs,
            Fail([fr EXCEPT !.total = @ + 1, !.written = @ + 1], 413, "PayloadTooLarge"))
    ELSE St(WriteFile(f, dest, Written(d, fr.k + 1), t).fs,
            [fr EXCEPT !.k = @ + 1, !.total = @ + 1, !.written = @ + 1])

\* one round of the chunk loop on the file with content d
UpChunk(f, fr, d, dest, t) ==
    IF fr.k = d.size THEN St(f, Goto(fr, "close"))
    ELSE IF fr.total + 1 > MAX_UPLOAD_MB
    THEN St(f, Fail([fr EXCEPT !.total = @ + 1], 413, "PayloadTooLarge"))
    ELSE St(WriteFile(f, dest, Written(d, fr.k + 1), t).fs,
            [fr EXCEPT !.k = @ + 1, !.total = @ + 1, !.written = @ + 1])

\* the end of the loop body: an archive is unpacked and removed
UpClose(f, fr, inp, dest, t) ==
    IF ~is_zip_path(dest) THEN St(f, [fr EXCEPT !.pc = "name", !.i = @ + 1])
    ELSE Bind(Then(extract_zip(f, dest, inp, t), LAMBDA g : Unlink(g, dest, t)),
              LAMBDA z : IF z.ok THEN St(z.fs, [fr EXCEPT !.pc = "name", !.i = @ + 1])
                         ELSE St(z.fs, Fail(fr, 500, "UnsafeArchiveEntry")))

\* the statement of create_job at fr.pc, the file at hand written at dest
UpAtFile(f, fr, inp, dest, t) ==
    CASE fr.pc = "name" -> UpOpen(f, fr, dest, t)
      [] fr.pc = "chunk" -> UpChunk(f, fr, fr.files[fr.i].data, dest, t)
      [] fr.pc = "close" -> UpClose(f, fr, inp, dest, t)
      [] OTHER -> St(f, fr)

\* the statement of create_job at fr.pc
UpStep(f, fr, t) ==
    IF fr.pc = "new" THEN UpNew(f, fr, t)
    ELSE IF fr.i > Len(fr.files) THEN UpRespond(f, fr, Touched(f, fr.job_id, t))
    ELSE UpAtFile(f, fr, job_paths(fr.job_id).inp,
                  Join(job_paths(fr.job_id).inp, SafeName(fr.files[fr.i].filename)), t)

\* an upload request arrives
Post ==
    /\ reqs = <<>>
    /\ \E files \in ChunkReqs : reqs' = <<UpFrame(A1, files)>>
    /\ UNCHANGED <<fs, now, last, nops, probe>>

\* create_job runs to its next read of a chunk
Stream == \E i \in DOMAIN reqs : reqs[i].pc # "done" /\ Stepped(i, UpStep(fs, reqs[i], now))

NextUpload ==
    \/ Post
    \/ Stream

SpecUpload == Init /\ [][NextUpload]_vars

RECURSIVE SumSizes(_, _)
SumSizes(f, S) ==
    IF S = {} THEN 0
    ELSE Bind(CHOOSE q \in S : TRUE, LAMBDA q : f[q].data.size + SumSizes(f, S \ {q}))

\* the bytes the input subtree of the job holds, in chunks
InputBytes(f, job_id) == SumSizes(f, FilesUnder(f, job_paths(job_id).inp))

\* the bytes of the files of the request, in chunks
RequestBytes(files) == SumSizes([i \in 1..Len(files) |-> files[i]], 1..Len(files))

\* C15 as the program keeps it: the bytes create_job streams from the files
\* of the request into the input subtree never exceed the maximum in total;
\* the request fails with PayloadTooLarge at the first chunk that would
\* exceed it, with that chunk and every later one unwritten; what the
\* expansion of an uploaded zip writes is not counted.  Run chunk by chunk,
\* create_job ends as it does run in one piece.
C15_StreamedBytesWithinMaximum ==
    \A i \in DOMAIN reqs :
        /\ reqs[i].written <= MAX_UPLOAD_MB
        /\ reqs[i].written <= reqs[i].total
        /\ reqs[i].err = "PayloadTooLarge"
               => /\ reqs[i].written = MAX_UPLOAD_MB
                  /\ reqs[i].status = 413
                  /\ RequestBytes(reqs[i].files) > MAX_UPLOAD_MB
        /\ (reqs[i].pc = "done" /\ reqs[i].status = 200)
               => reqs[i].written = RequestBytes(reqs[i].files)
        /\ reqs[i].pc = "done"
               => /\ fs = create_job(BaseFs, A1, reqs[i].files, 0).fs
                  /\ reqs[i].status = create_job(BaseFs, A1, reqs[i].files, 0).status

\* the second file of an upload crossed the maximum: the request failed with
\* PayloadTooLarge, the first file is whole and the second holds the one
\* chunk written before
C15_StoppedAtMaximum ==
    /\ Len(reqs) = 1
    /\ reqs[1].err = "PayloadTooLarge"
    /\ reqs[1].i = 2
    /\ reqs[1].written = MAX_UPLOAD_MB
    /\ InputBytes(fs, A1) = MAX_UPLOAD_MB
    /\ IsFile(fs, Append(job_paths(A1).inp, N_x_rpa))
    /\ fs[Append(job_paths(A1).inp, N_x_rpa)].data = Data("part", 1, <<>>)

\* C15: during an upload request the bytes written to the job's input
\* subtree, summed over the files of the request, never exceed the
\* configured maximum: when the running total would exceed it the request
\* fails with PayloadTooLarge and no further byte is written.
C15_InputBytesWithinMaximum ==
    /\ Exists(fs, job_paths(A1).inp) => InputBytes(fs, A1) <= MAX_UPLOAD_MB
    /\ \A i \in DOMAIN reqs : reqs[i].err = "PayloadTooLarge" => reqs[i].written = MAX_UPLOAD_MB

---------------------------------------------------------------------------
(* Moves on the input side of a job (SpecMove): the job holds the          *)
(* directory d with the file d/a and the file b; every move records its    *)
(* request and the file system it was called on in probe.                  *)

N_dd == <<"d", "d">>

N_d_a == <<"d", "/", "a">>

N_b == <<"b">>

\* the upload that makes the job
MoveFiles == <<UFile(N_d_a, Empty("A")), UFile(N_b, Empty("B"))>>

\* the paths of the move requests
MovePaths == {N_d, N_dd, N_d_a, N_b, DOT}

\* the input directory of the job
InpA1 == job_paths(A1).inp

\* the upload that makes the job
Furnish ==
    /\ nops = 0
    /\ Answer("upload", A1, create_job(fs, A1, MoveFiles, now), MoveFiles)

\* fs_move answered r to the request to move src to dst
Moved(src, dst, overwrite, r) ==
    /\ fs' = r.fs
    /\ last' = Last("move", A1, r.status, r.err, <<>>, 0)
    /\ probe' = [fn |-> "fs_move", arg |-> [src |-> src, dst |-> dst, overwrite |-> overwrite],
                 ok |-> r.status = 200, val |-> fs]
    /\ nops' = nops + 1
    /\ UNCHANGED <<now, reqs>>

Move ==
    /\ nops > 0
    /\ nops < MaxOps
    /\ \E src \in MovePaths, dst \in MovePaths, overwrite \in BOOLEAN :
          Moved(src, dst, overwrite, fs_move(fs, A1, "input", src, dst, overwrite, now))

NextMove ==
    \/ Furnish
    \/ Move

SpecMove == Init /\ [][NextMove]_vars

\* the source and the destination of the last move, resolved
SrcPath == Resolve(Join(InpA1, probe.arg.src))

DstPath == Resolve(Join(InpA1, probe.arg.dst))

\* the last step was a move whose source existed
MovedExisting == last.op = "move" /\ probe.fn = "fs_move" /\ Exists(probe.val, SrcPath)

\* C16: fs_move fails with InvalidMove exactly when src is a directory and
\* dst is src itself or a path inside src; a move of a directory to a
\* destination that is not src and not inside src, such as a sibling whose
\* name starts with the name of src, is not rejected as InvalidMove.
C16_InvalidMoveExactlyIntoItself ==
    MovedExisting
        => (last.err = "InvalidMove" <=> (IsDir(probe.val, SrcPath) /\ IsUnder(DstPath, SrcPath)))

\* the move of the directory d to its sibling dd was rejected as InvalidMove
C16_SiblingRejected ==
    /\ MovedExisting
    /\ probe.arg.src = N_d
    /\ probe.arg.dst = N_dd
    /\ IsDir(probe.val, SrcPath)
    /\ ~Exists(probe.val, DstPath)
    /\ last.status = 400
    /\ last.err = "InvalidMove"

\* the part of file system f below p, seen from p
Content(f, p) ==
    [q \in {SubSeq(x, Len(p) + 1, Len(x)) : x \in Subtree(f, p)} |->
        [kind |-> f[p \o q].kind, data |-> f[p \o q].data]]

\* C17: every move with overwrite=true whose src exists, whose dst exists
\* and which is not an InvalidMove (also when dst is an ancestor directory
\* of src or the side root) removes the destination and succeeds: afterwards
\* what was at src is at dst and src no longer exists; a move never destroys
\* the source content without placing it at dst.
C17_OverwriteMovesSource ==
    (MovedExisting /\ probe.arg.overwrite /\ Exists(probe.val, DstPath) /\ last.err # "InvalidMove")
        => /\ last.status = 200
           /\ Exists(fs, DstPath)
           /\ Content(fs, DstPath) = Content(probe.val, SrcPath)
           /\ SrcPath # DstPath => ~Exists(fs, SrcPath)

\* the file d/a was moved onto its directory d with overwrite: the request
\* failed, and neither d/a nor d exists any more
C17_SourceDestroyed ==
    /\ MovedExisting
    /\ probe.arg = [src |-> N_d_a, dst |-> N_d, overwrite |-> TRUE]
    /\ IsFile(probe.val, SrcPath)
    /\ last.status = 500
    /\ ~Exists(fs, SrcPath)
    /\ ~Exists(fs, DstPath)

---------------------------------------------------------------------------
(* src/app/utils.py: walk_tree, the tree snapshot.                         *)

\* the characters of names in code point order
Ascii ==
    <<"-", ".", "/", "0", "1", "2", "3", "4", "5", "6", "7", "8", "9",
      "A", "B", "C", "D", "E", "F", "G", "H", "I", "J", "K", "L", "M",
      "N", "O", "P", "Q", "R", "S", "T", "U", "V", "W", "X", "Y", "Z", "_",
      "a", "b", "c", "d", "e", "f", "g", "h", "i", "j", "k", "l", "m",
      "n", "o", "p", "q", "r", "s", "t", "u", "v", "w", "x", "y", "z">>

\* the place of a character in that order
Ord(c) == CHOOSE i \in 1..Len(Ascii) : Ascii[i] = c

\* a < b on str
RECURSIVE StrLess(_, _)
StrLess(a, b) ==
    IF b = <<>> THEN FALSE
    ELSE IF a = <<>> THEN TRUE
    ELSE IF Head(a) # Head(b) THEN Ord(Head(a)) < Ord(Head(b))
    ELSE StrLess(Tail(a), Tail(b))

\* SortKey were the name taken as it is
SortKeyCased(f, p) == [is_file |-> IsFile(f, p), name |-> Name(p)]

\* the sort key of walk_tree: (x.is_file(), x.name.lower())
SortKey(f, p) == [is_file |-> IsFile(f, p), name |-> Lower(Name(p))]

\* a < b on the keys, as tuples
KeyLess(a, b) ==
    IF a.is_file # b.is_file THEN ~a.is_file
    ELSE StrLess(a.name, b.name)

\* sorted(): x is put behind the entries of the sorted list s that are not
\* greater, so entries with equal keys keep the order they came in
RECURSIVE Insert(_, _, _)
Insert(f, s, x) ==
    IF s = <<>> THEN <<x>>
    ELSE IF KeyLess(SortKey(f, x), SortKey(f, Head(s))) THEN <<x>> \o s
    ELSE <<Head(s)>> \o Insert(f, Tail(s), x)

RECURSIVE SortedFrom(_, _, _)
SortedFrom(f, acc, rest) ==
    IF rest = <<>> THEN acc ELSE SortedFrom(f, Insert(f, acc, Head(rest)), Tail(rest))

\* d.iterdir(), the entries in the order the directory gives them: order
\* lists the names as the file system happens to return them
Iterdir(f, d, order) ==
    SelectSeq([i \in 1..Len(order) |-> Append(d, order[i])], LAMBDA q : Exists(f, q))

\* the node of the file p
FileEntry(f, root, p) ==
    [type |-> "file", name |-> Name(p), path |-> RelPath(p, root), size |-> f[p].data.size]

\* node_for_dir(d) with its children listed in the sequence ps
RECURSIVE NodeOf(_, _, _, _, _)
NodeOf(f, root, d, ps, order) ==
    [type |-> "dir",
     name |-> IF d # root THEN Name(d) ELSE <<"/">>,
     path |-> IF d # root THEN RelPath(d, root) ELSE <<>>,
     children |-> [i \in 1..Len(ps) |->
                      IF IsDir(f, ps[i])
                      THEN NodeOf(f, root, ps[i], SortedFrom(f, <<>>, Iterdir(f, ps[i], order)), order)
                      ELSE FileEntry(f, root, ps[i])]]

node_for_dir(f, root, d, order) == NodeOf(f, root, d, SortedFrom(f, <<>>, Iterdir(f, d, order)), order)

walk_tree(f, root, order) == <<node_for_dir(f, Resolve(root), Resolve(root), order)>>

---------------------------------------------------------------------------
(* Snapshots of uploaded trees (SpecTree).                                 *)

N_A == <<"A">>

N_B == <<"B">>

N_A_b == <<"A", "/", "b">>

N_A_B == <<"A", "/", "B">>

N_d_B == <<"d", "/", "B">>

\* the names of the uploaded files
TreeNames == {N_b, N_B, N_d, N_A_b, N_A_B, N_d_a, N_d_B}

\* most files in an upload
MaxFiles == 3

\* the file lists of the uploads
TreeReqs ==
    { [i \in 1..Len(s) |-> UFile(s[i], Empty("T"))] :
        s \in { SetToSeq(S) : S \in { T \in SUBSET TreeNames : Cardinality(T) \in 1..MaxFiles } } }

\* the names below directory root
NamesBelow(f, root) == { Name(q) : q \in Subtree(f, root) \ {root} }

\* the orders a file system may list the names in
Orders(S) ==
    { s \in [1..Cardinality(S) -> S] : \A i, j \in 1..Cardinality(S) : i # j => s[i] # s[j] }

\* the upload that makes the job
Plant ==
    /\ nops = 0
    /\ \E files \in TreeReqs : Answer("upload", A1, create_job(fs, A1, files, now), files)

\* job_tree answered r, with the tree snapshot tree
Snapped(r, tree) ==
    /\ fs' = r.fs
    /\ last' = Last("tree", A1, r.status, r.err, <<>>, 0)
    /\ probe' = [fn |-> "walk_tree", arg |-> InpA1, ok |-> r.status = 200, val |-> tree]
    /\ nops' = nops + 1
    /\ UNCHANGED <<now, reqs>>

Snapshot ==
    /\ nops = 1
    /\ last.status = 200
    /\ \E order \in Orders(NamesBelow(fs, InpA1)) :
          Snapped(job_tree(fs, A1, "input", now), walk_tree(fs, InpA1, order))

NextTree ==
    \/ Plant
    \/ Snapshot

SpecTree == Init /\ [][NextTree]_vars

\* the directory nodes of a snapshot below and with node n
RECURSIVE DirNodes(_)
DirNodes(n) ==
    IF n.type # "dir" THEN {}
    ELSE {n} \cup UNION { DirNodes(n.children[i]) : i \in 1..Len(n.children) }

\* the children of directory node n are in the order of the snapshot
InOrder(n) ==
    \A i, j \in 1..Len(n.children) :
        i < j => /\ n.children[i].type = "file" => n.children[j].type = "file"
                 /\ n.children[i].type = n.children[j].type
                        => ~StrLess(Lower(n.children[j].name), Lower(n.children[i].name))

\* the paths of the children of directory node n are the path of n, a
\* slash and their name
PathsBelow(n) ==
    \A i \in 1..Len(n.children) :
        /\ n.children[i].path = (IF n.path = <<>> THEN <<>> ELSE n.path \o <<"/">>) \o n.children[i].name
        /\ "/" \notin Range(n.children[i].name)
        /\ n.children[i].name # <<>>

\* C18: in every directory node of a tree snapshot the children are ordered
\* with all subdirectories before all files and, within each group,
\* alphabetically by case-insensitive name; every node's relative path is
\* forward-slash separated and relative to the snapshot root.
C18_SnapshotOrdered ==
    probe.fn = "walk_tree"
        => /\ Len(probe.val) = 1
           /\ probe.val[1].path = <<>>
           /\ \A n \in DirNodes(probe.val[1]) : InOrder(n) /\ PathsBelow(n)
           /\ \A q \in Subtree(fs, InpA1) \ {InpA1} :
                 \E n \in DirNodes(probe.val[1]) : \E i \in 1..Len(n.children) :
                     n.children[i].path = RelPath(q, InpA1)

\* the snapshot of a directory that holds b, B and the directory d: d comes
\* first, and the file B is listed behind the file b, as the file system
\* gave them
C18_DirFirstThenNames ==
    /\ probe.fn = "walk_tree"
    /\ Len(probe.val[1].children) = 3
    /\ probe.val[1].children[1].type = "dir"
    /\ probe.val[1].children[1].name = N_d
    /\ probe.val[1].children[1].children[1].path = N_d_a
    /\ probe.val[1].children[2].name = N_b
    /\ probe.val[1].children[3].name = N_B

---------------------------------------------------------------------------
(* The janitor loop (SpecLoop): _periodic_cleanup runs for the lifetime of *)
(* the service.  probe holds the state of its task: ok while the task is   *)
(* alive, arg the number of sweeps that raised.  A sweep raises when the   *)
(* jobs root cannot be listed.                                             *)

\* most sweeps that raise in a behaviour
MaxRaises == 1

\* most requests of the clients in a behaviour
LoopOps == 2

\* the task on_startup creates
LoopTask == [fn |-> "_periodic_cleanup", arg |-> 0, ok |-> TRUE, val |-> <<>>]

InitLoop ==
    /\ fs = BaseFs
    /\ now = 0
    /\ reqs = <<>>
    /\ last = Last("init", <<>>, 0, "", <<>>, 0)
    /\ nops = 0
    /\ probe = LoopTask

\* AfterSweep were the exception of a sweep to leave the loop
AfterSweepUncaught(task, r) == [task EXCEPT !.ok = r.ok, !.arg = IF r.ok THEN @ ELSE @ + 1]

\* the task after one round of the loop in which cleanup_jobs returned r:
\* what a sweep raises is caught and passed over, and the loop sleeps
AfterSweep(task, r) == [task EXCEPT !.arg = IF r.ok THEN @ ELSE @ + 1]

\* one round of the loop of _periodic_cleanup, cleanup_jobs returning r
Round(r) ==
    /\ probe.ok
    /\ fs' = r.fs
    /\ last' = [Last(IF r.ok THEN "sweep" ELSE "sweep_error", <<>>, 0, "", <<>>, 0)
                   EXCEPT !.removed = r.removed]
    /\ probe' = AfterSweep(probe, r)
    /\ UNCHANGED <<now, reqs, nops>>

\* a round in which the sweep runs
Sweeps == Round(cleanup_jobs(fs, JOB_TTL_SECONDS, now))

\* a round in which the listing of the jobs root fails and the sweep raises
Raises ==
    /\ probe.arg < MaxRaises
    /\ Round([ok |-> FALSE, fs |-> fs, removed |-> 0])

\* POST /api/upload makes the job
Uploads ==
    /\ nops < LoopOps
    /\ ~Exists(fs, job_paths(A1).root)
    /\ Answer("upload", A1, create_job(fs, A1, ConcFiles, now), ConcFiles)

\* GET /api/job/{job_id}/tree refreshes the job
Looks ==
    /\ nops < LoopOps
    /\ Answer("tree", A1, job_tree(fs, A1, "input", now), <<>>)

NextLoop ==
    \/ Uploads
    \/ Looks
    \/ Tick
    \/ Sweeps
    \/ Raises

\* the clock advances, and the loop comes round to a sweep that does not
\* raise again and again
SpecLoop == InitLoop /\ [][NextLoop]_vars /\ WF_vars(Tick) /\ WF_vars(Sweeps)

\* the clients have made all their requests, and the last access to the job
\* directory d is long enough ago for the clock of the model to pass its
\* time-to-live by a second
LeftAlone(d) ==
    /\ nops = LoopOps
    /\ IsDir(fs, d)
    /\ LastAccess(fs, d) + (JOB_TTL_SECONDS + 1) * TicksPerSec <= MaxTime

\* C19: the janitor loop never terminates while the service runs: it keeps
\* invoking sweeps, also after a sweep raised an error, so every job that is
\* never accessed again is eventually removed once its time-to-live has
\* passed.
C19_JanitorKeepsSweeping ==
    /\ [](probe.ok)
    /\ LeftAlone(job_paths(A1).root) ~> ~Exists(fs, job_paths(A1).root)

\* a sweep has raised, and a later sweep removed an expired job
C19_RemovedAfterError ==
    /\ probe.fn = "_periodic_cleanup"
    /\ probe.ok
    /\ probe.arg >= 1
    /\ last.op = "sweep"
    /\ last.removed = 1
    /\ nops = LoopOps

---------------------------------------------------------------------------
(* The touch of a reader beside the janitor (SpecTouch): job_tree runs in  *)
(* a worker thread, and the sweep of _periodic_cleanup may run between its *)
(* check that the side exists and its touch_meta.                          *)

\* most calls of job_tree in a behaviour
MaxReaders == 2

\* the frame of a call of job_tree on the side where
TreeFrame(job_id, where) == [FrameOf("tree", job_id, ConcReq) EXCEPT !.pack_where = where]

\* job_tree: the side root is looked up
TreeCheck(f, fr) ==
    IF ~Exists(f, SideRoot(fr.job_id, fr.pack_where)) THEN St(f, Fail(fr, 404, "JobNotFound"))
    ELSE St(f, Goto(fr, "touch"))

\* job_tree: touch_meta and the response; what touch_meta raises leaves the
\* handler
TreeTouch(f, fr, t) ==
    Bind(Touched(f, fr.job_id, t),
         LAMBDA r : St(r.fs, [fr EXCEPT !.pc = "done", !.status = r.status, !.err = r.err]))

TreeStep(f, fr, t) == IF fr.pc = "start" THEN TreeCheck(f, fr) ELSE TreeTouch(f, fr, t)

\* GET /api/jobs/{job_id}/tree is called
Asks ==
    /\ Len(reqs) < MaxReaders
    /\ reqs' = Append(reqs, TreeFrame(A1, "input"))
    /\ UNCHANGED <<fs, now, last, nops, probe>>

\* the worker of a call runs its next statement
Reads == \E i \in DOMAIN reqs : reqs[i].pc # "done" /\ Stepped(i, TreeStep(fs, reqs[i], now))

NextTouch ==
    \/ Asks
    \/ Reads
    \/ Tick
    \/ Sweep

SpecTouch == InitConc /\ [][NextTouch]_vars

\* call i is about to touch a job whose workspace is gone
TouchesRemoved(i) == reqs[i].pc = "touch" /\ ~Exists(fs, job_paths(reqs[i].job_id).root)

\* a touch of a removed job leaves the file system as it is
TouchRecreatesNothing ==
    [][\A i \in DOMAIN reqs : (TouchesRemoved(i) /\ reqs'[i] # reqs[i]) => fs' = fs]_vars

\* C21: touch on a job whose workspace has been removed concurrently (by a
\* sweep between the existence check of an operation and its touch) fails
\* silently: it raises no error to the calling operation and recreates no
\* part of the workspace of the removed job.
C21_TouchFailsSilently ==
    [][\A i \in DOMAIN reqs :
          (TouchesRemoved(i) /\ reqs'[i] # reqs[i])
              => (reqs'[i].status = 200 /\ fs' = fs)]_vars

\* the sweep removed the job between the check and the touch of a call, and
\* the call ended with the error touch_meta raised
C21_TouchRaised ==
    /\ last.op = "sweep"
    /\ last.removed = 1
    /\ ~Exists(fs, job_paths(A1).root)
    /\ \E i \in DOMAIN reqs : reqs[i].pc = "done" /\ reqs[i].status = 500 /\ reqs[i].err = "OSError"

---------------------------------------------------------------------------
(* The side roots under the file system requests (SpecSides): after the    *)
(* upload the job receives only moves, mkdirs and deletes, with paths that *)
(* ensure_safe_relpath accepts.                                            *)

\* DELETE /api/jobs/{job_id}/fs
Erase ==
    /\ nops > 0
    /\ nops < MaxOps
    /\ \E where \in Sides, path \in MovePaths :
          Answer("delete", A1, fs_delete(fs, A1, where, path, now), <<>>)

\* POST /api/jobs/{job_id}/fs/mkdir
MakeDir ==
    /\ nops > 0
    /\ nops < MaxOps
    /\ \E where \in Sides, path \in MovePaths :
          Answer("mkdir", A1, fs_mkdir(fs, A1, where, path, now), <<>>)

NextSides ==
    \/ Furnish
    \/ Move
    \/ MakeDir
    \/ Erase

SpecSides == Init /\ [][NextSides]_vars

\* every path of the requests passes ensure_safe_relpath
PathsValidated == \A p \in MovePaths : ensure_safe_relpath(p).ok

\* C22: after any sequence of successful or failed move, mkdir and delete
\* operations with validated paths on an existing job, the input directory
\* and the output directory of the job still exist: no file system
\* operation removes or replaces a side root itself, so the job stays
\* resolvable.
C22_SideRootsStay ==
    (PathsValidated /\ Exists(fs, job_paths(A1).root))
        => (IsDir(fs, InpA1) /\ IsDir(fs, OutA1))

\* the delete of the path "." succeeded and a side root of the job is gone
C22_SideRootDeleted ==
    /\ PathsValidated
    /\ last.op = "delete"
    /\ last.status = 200
    /\ Exists(fs, job_paths(A1).root)
    /\ ~Exists(fs, InpA1) \/ ~Exists(fs, OutA1)

\* a failed move onto the path "." with overwrite left the input directory
\* removed
C22_SideRootLostByMove ==
    /\ last.op = "move"
    /\ probe.fn = "fs_move"
    /\ probe.arg.dst = DOT
    /\ probe.arg.overwrite
    /\ last.status = 500
    /\ Exists(probe.val, InpA1)
    /\ ~Exists(fs, InpA1)

---------------------------------------------------------------------------
(* Pack staging (SpecStage): repack_job is served on a job whose output    *)
(* holds directories, processed files or an archive, from the input        *)
(* directory, from the output directory, which holds the staging           *)
(* directory, or from a directory of the output; the listings of the       *)
(* staging loop yield the directories in any order.                        *)

\* the names of directories that a listing may yield before the staging
\* directory
StageNames == {S_decompiled, S_rpa_extract, N_d}

\* the sources of the repack requests: <<where, path>>
StageSources == { <<"input", <<>>>>, <<"output", <<>>>>, <<"output", N_d>>, <<"output", S_decompiled>> }

StageReqs ==
    { PReq("repack", a[1], a[2], N_p_rpa, K_good, tools) : a \in StageSources, tools \in {<<>>, <<"fail">>} }

\* POST /api/jobs/{job_id}/repack
Packs ==
    /\ nops > 0
    /\ reqs = <<>>
    /\ \E q \in StageReqs, first \in SUBSET StageNames :
          Served(q, RunToEnd(fs, [FrameOf("repack", A1, q) EXCEPT !.walked_first = first], now))

NextStage ==
    \/ Land
    \/ Prepare
    \/ Packs

SpecStage == Init /\ [][NextStage]_vars

\* the staging directory of the job
PackrootA1 == Append(OutA1, S_packroot)

\* a path no file is below
Nowhere == <<<<>>>>

\* the files below directory p of file system f that are not below the
\* staging directory, by their paths from p
FilesAt(f, p, staging) ==
    [q \in {SubSeq(x, Len(p) + 1, Len(x)) : x \in {y \in FilesUnder(f, p) : ~IsUnder(y, staging)}}
        |-> f[p \o q].data]

\* the request served was a repack whose source directory existed: its
\* staging loop ran
StagingRan ==
    /\ WasServed
    /\ reqs[1].op = "repack"
    /\ reqs[1].source_dir # <<>>
    /\ IsDir(probe.arg, reqs[1].source_dir)

\* what the staging directory holds is the files the source directory held
\* before the request, the earlier staging directory apart
StagedExactly == FilesAt(fs, PackrootA1, Nowhere) = FilesAt(probe.arg, reqs[1].source_dir, PackrootA1)

\* staging from a directory that does not hold the staging directory copies
\* exactly the files of the directory
StagedExactlyFromOutside ==
    (StagingRan /\ ~IsUnder(PackrootA1, reqs[1].source_dir)) => (IsDir(fs, PackrootA1) /\ StagedExactly)

\* C23: pack staging terminates and is private for every permitted source
\* directory, also for the root of the output, which holds the staging
\* directory: the staged copy holds exactly the files that were in the
\* source directory before staging began (the staging directory is never
\* copied into itself), and after the pack the staging directory is not
\* part of the output tree of the job.
C23_StagingPrivateAndExact ==
    StagingRan =>
        /\ last.err # "OSError"
        /\ Exists(fs, PackrootA1) => StagedExactly
        /\ ~Exists(fs, PackrootA1)

\* a repack from the input directory made its archive, and the staging
\* directory with its copy is still in the output
C23_StagingLeftInOutput ==
    /\ StagingRan
    /\ reqs[1].source_dir = job_paths(A1).inp
    /\ last.status = 200
    /\ Lines(reqs[1].logs, {"[repack] created"}) = 1
    /\ IsDir(fs, PackrootA1)
    /\ StagedExactly
    /\ FilesUnder(fs, PackrootA1) # {}

\* a repack from the root of the output whose listing yielded a directory
\* before the staging directory: the request succeeded and the staging
\* directory holds a copy of itself
StagingCopiedIntoItself ==
    /\ StagingRan
    /\ reqs[1].source_dir = OutA1
    /\ last.status = 200
    /\ FilesUnder(fs, Append(PackrootA1, S_packroot)) # {}
    /\ ~StagedExactly

\* a repack from the root of the output that holds a file: the staging
\* loop copied the staging directory into itself until a path was too long
StagingNestedUntilError ==
    /\ StagingRan
    /\ reqs[1].source_dir = OutA1
    /\ FilesUnder(probe.arg, OutA1) \cap Children(probe.arg, OutA1) # {}
    /\ last.status = 500
    /\ last.err = "OSError"
    /\ FilesUnder(fs, Append(PackrootA1, S_packroot)) # {}

\* a repack from the root of the output whose listing yielded the staging
\* directory first: the copy is exact
StagingFirstListedExact ==
    /\ StagingRan
    /\ reqs[1].source_dir = OutA1
    /\ reqs[1].walked_first = {}
    /\ FilesUnder(fs, PackrootA1) # {}
    /\ last.status = 200
    /\ StagedExactly

=============================================================================
